---- MODULE Spec2Model ----
(***************************************************************************)
(* Model of the fixture test DSL compiler of orgdown-vscode                *)
(* (common/src/fixture-parser.ts): parseFixtureFile and the operations it  *)
(* calls, parseExpectedBlock, parseExpectedArgs and processExpectedValue;  *)
(* and of its language server (server/src/server.ts) with the folds and    *)
(* the symbols it serves (common/src/folding.ts, server/src/features).     *)
(*                                                                         *)
(* A JavaScript string is modelled as a sequence of lexical units: a unit  *)
(* is a single character (" ", ",", "|", "*", ":" ...) or an indivisible   *)
(* lexeme (a directive keyword such as "#+NAME:", a word such as "regex"). *)
(* The string operations of the source (trim, toLowerCase, startsWith,     *)
(* includes, split, join, the regular expressions) are computed on these   *)
(* sequences.  Indices of lines are the 0-based indices of the source: the *)
(* line lines[k] of the source is At(ls, k).                               *)
(***************************************************************************)
EXTENDS Integers, Sequences, FiniteSets, TLC

VARIABLES lines, pc, i, tests, spans, returned,
          phase, parser, documents, reply, initializeResult

\* the state of a call of parseFixtureFile
fixtureVars == <<lines, pc, i, tests, spans, returned>>

\* the state of the language server
serverVars == <<phase, parser, documents, reply, initializeResult>>

vars == <<lines, pc, i, tests, spans, returned,
          phase, parser, documents, reply, initializeResult>>

(***************************************************************************)
(* Lexical units and the string primitives.                                *)
(***************************************************************************)

\* the characters \s of the regular expressions and of String.trim
SpaceToks == {" ", "\t"}

\* the units that hold a colon (the class [^:] excludes them)
ColonToks == {":", "#+NAME:", "#+name:", "#+EXPECTED:", "#+expected:"}

\* the units made of word characters only (the class \w)
WordToks == {"type", "TYPE", "name", "regex", "scope", "folding", "symbols",
             "other", "a", "b", "r", "q", "s", "x", "y", "h",
             "0", "1", "2", "3"}

DigitToks == {"0", "1", "2", "3"}

\* String.prototype.toLowerCase on one unit
LowerTok(t) ==
  CASE t = "#+NAME:" -> "#+name:"
    [] t = "#+BEGIN_FIXTURE" -> "#+begin_fixture"
    [] t = "#+END_FIXTURE" -> "#+end_fixture"
    [] t = "#+EXPECTED:" -> "#+expected:"
    [] t = "TYPE" -> "type"
    [] t = "NO-MATCH" -> "no-match"
    [] OTHER -> t

ToLowerCase(s) == [k \in 1..Len(s) |-> LowerTok(s[k])]

At(ls, k) == ls[k + 1]

\* number of leading whitespace units: the match of /^(\s*)/
LeadingSpaces(s) ==
  IF \A k \in 1..Len(s) : s[k] \in SpaceToks
    THEN Len(s)
    ELSE (CHOOSE k \in 1..Len(s) :
            /\ s[k] \notin SpaceToks
            /\ \A j \in 1..(k - 1) : s[j] \in SpaceToks) - 1

TrailingSpaces(s) ==
  IF \A k \in 1..Len(s) : s[k] \in SpaceToks
    THEN Len(s)
    ELSE Len(s) - (CHOOSE k \in 1..Len(s) :
                     /\ s[k] \notin SpaceToks
                     /\ \A j \in (k + 1)..Len(s) : s[j] \in SpaceToks)

\* String.prototype.trim
Trim(s) ==
  IF LeadingSpaces(s) = Len(s)
    THEN << >>
    ELSE SubSeq(s, LeadingSpaces(s) + 1, Len(s) - TrailingSpaces(s))

\* String.prototype.startsWith
StartsWith(s, p) == Len(s) >= Len(p) /\ SubSeq(s, 1, Len(p)) = p

\* String.prototype.includes, for a pattern of one unit
Includes(s, t) == \E k \in 1..Len(s) : s[k] = t

\* Array.prototype.join("\n")
RECURSIVE JoinNL(_)
JoinNL(ls) ==
  IF Len(ls) = 0 THEN << >>
  ELSE IF Len(ls) = 1 THEN ls[1]
  ELSE ls[1] \o <<"\n">> \o JoinNL(Tail(ls))

\* String.prototype.split("\n"): always at least one line
RECURSIVE SplitNL(_)
SplitNL(s) ==
  IF ~Includes(s, "\n")
    THEN <<s>>
    ELSE LET k == CHOOSE k \in 1..Len(s) :
                    s[k] = "\n" /\ \A j \in 1..(k - 1) : s[j] # "\n"
         IN <<SubSeq(s, 1, k - 1)>> \o SplitNL(SubSeq(s, k + 1, Len(s)))

(***************************************************************************)
(* The line tests of parseFixtureFile (case-insensitive) and of the block  *)
(* scan of parseExpectedBlock (case-sensitive).                            *)
(***************************************************************************)

IsNameLine(l) == StartsWith(ToLowerCase(Trim(l)), <<"#+name:">>)

IsBeginLine(l) == StartsWith(ToLowerCase(Trim(l)), <<"#+begin_fixture">>)

\* a variant that finds the close keyword anywhere in the line
IsEndLineLoose(l) == Includes(ToLowerCase(l), "#+end_fixture")

IsEndLine(l) == StartsWith(ToLowerCase(Trim(l)), <<"#+end_fixture">>)

IsExpectedLine(l) == StartsWith(ToLowerCase(Trim(l)), <<"#+expected:">>)

IsBlankLine(l) == Trim(l) = << >>

\* /^\*+\s/ on the trimmed line
IsHeadline(t) ==
  \E k \in 1..Len(t) :
    /\ \A j \in 1..k : t[j] = "*"
    /\ k < Len(t)
    /\ t[k + 1] \in SpaceToks

\* a variant that ends the block at every headline-shaped line
IsBlockTerminatorAtHeadline(l) ==
  \/ StartsWith(Trim(l), <<"#+NAME:">>)
  \/ StartsWith(Trim(l), <<"#+BEGIN_FIXTURE">>)
  \/ StartsWith(Trim(l), <<"#+EXPECTED:">>)
  \/ IsHeadline(Trim(l))

IsBlockTerminator(l) ==
  LET line == Trim(l) IN
    \/ StartsWith(line, <<"#+NAME:">>)
    \/ StartsWith(line, <<"#+BEGIN_FIXTURE">>)
    \/ StartsWith(line, <<"#+EXPECTED:">>)
    \/ (IsHeadline(line) /\ ~Includes(line, "=>"))

(***************************************************************************)
(* processExpectedValue and parseExpectedArgs.                             *)
(***************************************************************************)

\* the end of the longest run of units satisfying P that starts at from
\* (from - 1 when the run is empty)
RunEnd(s, from, P(_)) ==
  IF \A j \in from..Len(s) : P(s[j])
    THEN Len(s)
    ELSE (CHOOSE j \in from..Len(s) :
            ~P(s[j]) /\ \A m \in from..(j - 1) : P(s[m])) - 1

IsSpaceTok(t) == t \in SpaceToks

IsWordTok(t) == t \in WordToks

IsDigitTok(t) == t \in DigitToks

IsNotColonTok(t) == t \notin ColonToks

DigitVal(t) == CASE t = "0" -> 0 [] t = "1" -> 1 [] t = "2" -> 2 [] t = "3" -> 3

\* the value of a run of decimal digits
RECURSIVE DecimalValue(_)
DecimalValue(ds) ==
  IF Len(ds) = 0 THEN 0
  ELSE 10 * DecimalValue(SubSeq(ds, 1, Len(ds) - 1)) + DigitVal(ds[Len(ds)])

\* the digits of parseInt: the longest run of digits s[from..e], NaN when
\* it is empty
ParseDigits(s, from, e, sign) ==
  IF e < from
    THEN [nan |-> TRUE, val |-> 0]
    ELSE [nan |-> FALSE, val |-> sign * DecimalValue(SubSeq(s, from, e))]

\* parseInt on a string without leading whitespace
ParseSigned(s) ==
  IF Len(s) > 0 /\ s[1] \in {"-", "+"}
    THEN ParseDigits(s, 2, RunEnd(s, 2, IsDigitTok),
                     IF s[1] = "-" THEN -1 ELSE 1)
    ELSE ParseDigits(s, 1, RunEnd(s, 1, IsDigitTok), 1)

\* parseInt(str, 10): leading whitespace, an optional sign, the longest run
\* of digits; NaN when there is no digit
ParseInt(str) == ParseSigned(SubSeq(str, LeadingSpaces(str) + 1, Len(str)))

Spaces(n) == [k \in 1..n |-> " "]

\* a match of /<sp:(\d+)>/ at the start of s, its digits being s[5..e]
IsSpToken(s, e) ==
  /\ StartsWith(s, <<"<", "s", "p", ":">>)
  /\ e >= 5
  /\ e < Len(s)
  /\ s[e + 1] = ">"

\* a variant that repeats the blank as many times as the token has digits
RECURSIVE ReplaceSpByDigits(_)
ReplaceSpByDigits(s) ==
  IF Len(s) = 0 THEN << >>
  ELSE IF IsSpToken(s, RunEnd(s, 5, IsDigitTok))
    THEN Spaces(RunEnd(s, 5, IsDigitTok) - 4)
           \o ReplaceSpByDigits(SubSeq(s, RunEnd(s, 5, IsDigitTok) + 2, Len(s)))
    ELSE <<s[1]>> \o ReplaceSpByDigits(Tail(s))

\* s.replace(/<sp:(\d+)>/g, (_, count) => " ".repeat(parseInt(count, 10)))
RECURSIVE ReplaceSp(_)
ReplaceSp(s) ==
  IF Len(s) = 0 THEN << >>
  ELSE IF IsSpToken(s, RunEnd(s, 5, IsDigitTok))
    THEN Spaces(DecimalValue(SubSeq(s, 5, RunEnd(s, 5, IsDigitTok))))
           \o ReplaceSp(SubSeq(s, RunEnd(s, 5, IsDigitTok) + 2, Len(s)))
    ELSE <<s[1]>> \o ReplaceSp(Tail(s))

\* s.replace(pat, rep) for a global pattern that is a fixed string
RECURSIVE ReplaceAll(_, _, _)
ReplaceAll(s, pat, rep) ==
  IF Len(s) = 0 THEN << >>
  ELSE IF StartsWith(s, pat)
    THEN rep \o ReplaceAll(SubSeq(s, Len(pat) + 1, Len(s)), pat, rep)
    ELSE <<s[1]>> \o ReplaceAll(Tail(s), pat, rep)

processExpectedValue(value) ==
  ReplaceAll(
    ReplaceAll(ReplaceSp(value), <<"<", "t", "a", "b", ">">>, <<"\t">>),
    <<"<", "p", "i", "p", "e", ">">>, <<"|">>)

\* a variant that keeps the value a key already has
MapSetKeepingFirst(args, key, value) ==
  IF \E k \in 1..Len(args) : args[k].key = key
    THEN args
    ELSE Append(args, [key |-> key, value |-> value])

\* Map.prototype.set on a map kept as the sequence of its entries
MapSet(args, key, value) ==
  IF \E k \in 1..Len(args) : args[k].key = key
    THEN [k \in 1..Len(args) |->
            IF args[k].key = key THEN [key |-> key, value |-> value]
            ELSE args[k]]
    ELSE Append(args, [key |-> key, value |-> value])

MapHas(args, key) == \E k \in 1..Len(args) : args[k].key = key

\* Map.prototype.get; only used where MapHas holds
MapGet(args, key) ==
  args[CHOOSE k \in 1..Len(args) : args[k].key = key].value

\* a match of /:(\w+)\s+([^:]+)/ at the colon unit s[k]: the key is
\* s[k+1..wEnd], the whitespace s[wEnd+1..sEnd], the value s[sEnd+1..vEnd],
\* or, when nothing but a colon follows two or more whitespace units, the
\* last of them
ArgMatchOf(s, k, wEnd, sEnd, vEnd) ==
  IF ~(s[k] \in ColonToks /\ wEnd >= k + 1 /\ sEnd >= wEnd + 1)
    THEN [ok |-> FALSE]
  ELSE IF vEnd >= sEnd + 1
    THEN [ok |-> TRUE, key |-> SubSeq(s, k + 1, wEnd),
          value |-> SubSeq(s, sEnd + 1, vEnd), end |-> vEnd]
  ELSE IF sEnd >= wEnd + 2
    THEN [ok |-> TRUE, key |-> SubSeq(s, k + 1, wEnd),
          value |-> <<s[sEnd]>>, end |-> sEnd]
  ELSE [ok |-> FALSE]

ArgSpaceEnd(s, wEnd) == RunEnd(s, wEnd + 1, IsSpaceTok)

ArgValueEnd(s, wEnd) == RunEnd(s, ArgSpaceEnd(s, wEnd) + 1, IsNotColonTok)

ArgMatchFrom(s, k, wEnd) ==
  ArgMatchOf(s, k, wEnd, ArgSpaceEnd(s, wEnd), ArgValueEnd(s, wEnd))

ArgMatchAt(s, k) == ArgMatchFrom(s, k, RunEnd(s, k + 1, IsWordTok))

\* the units of s from p on where the pattern matches
ArgMatchStarts(s, p) == {k \in p..Len(s) : ArgMatchAt(s, k).ok}

Least(S) == CHOOSE x \in S : \A y \in S : x <= y

Greatest(S) == CHOOSE x \in S : \A y \in S : y <= x

\* the exec loop of parseExpectedArgs from unit p on
RECURSIVE ArgsFrom(_, _, _)
ArgsWith(s, args, m) ==
  ArgsFrom(s, m.end + 1, MapSet(args, ToLowerCase(m.key), Trim(m.value)))

ArgsFrom(s, p, args) ==
  IF ArgMatchStarts(s, p) = {}
    THEN args
    ELSE ArgsWith(s, args, ArgMatchAt(s, Least(ArgMatchStarts(s, p))))

parseExpectedArgs(line) == ArgsFrom(line, 1, << >>)

(***************************************************************************)
(* The decoders of parseExpectedBlock.  A decoder returns                  *)
(* [threw, exps]: threw when the source throws, else exps is the sequence  *)
(* of Expectation values pushed (one, or none for an unknown type).        *)
(***************************************************************************)

\* the index of the first unit t of s; used where s includes t
IndexOf(s, t) == CHOOSE k \in 1..Len(s) : s[k] = t /\ \A j \in 1..(k - 1) : s[j] # t

\* String.prototype.split(sep) for a separator of one unit
RECURSIVE Split(_, _)
Split(s, sep) ==
  IF ~Includes(s, sep)
    THEN <<s>>
    ELSE <<SubSeq(s, 1, IndexOf(s, sep) - 1)>>
           \o Split(SubSeq(s, IndexOf(s, sep) + 1, Len(s)), sep)

\* Array.prototype.map((s) => s.trim())
TrimAll(parts) == [k \in 1..Len(parts) |-> Trim(parts[k])]

IsNoMatchLine(line) == ToLowerCase(Trim(line)) = <<"no-match">>

IsTableLine(line) == ~IsNoMatchLine(line) /\ StartsWith(Trim(line), <<"|">>)

\* the cells of a table row, each trimmed
RowParts(line) == TrimAll(Split(Trim(line), "|"))

\* the cells of a table row that yields a capture (the rows mapped to null
\* are dropped)
IsCaptureParts(parts) ==
  /\ Len(parts) >= 3
  /\ parts[2] # <<"Group", " ", "#">>
  /\ ~Includes(parts[2], "---")

IsCaptureRow(line) == IsCaptureParts(RowParts(line))

CaptureOfParts(parts) ==
  [index |-> ParseInt(parts[2]), value |-> processExpectedValue(parts[3])]

CaptureOf(line) == CaptureOfParts(RowParts(line))

CapturesOf(rows) == [k \in 1..Len(rows) |-> CaptureOf(rows[k])]

\* a variant that keeps the captures of a block that must not match
RegexExpectationWithRows(regexName, shouldMatch, captures) ==
  [type |-> "regex", name |-> regexName, shouldMatch |-> shouldMatch,
   hasCaptures |-> TRUE, captures |-> captures]

RegexExpectation(regexName, shouldMatch, captures) ==
  [type |-> "regex", name |-> regexName, shouldMatch |-> shouldMatch,
   hasCaptures |-> shouldMatch,
   captures |-> IF shouldMatch THEN captures ELSE << >>]

\* a variant that takes a missing name for the empty name
DecodeRegexLenient(args, blockContentLines) ==
  [threw |-> FALSE,
   exps |-> <<RegexExpectation(IF MapHas(args, <<"name">>)
                                 THEN MapGet(args, <<"name">>) ELSE << >>,
                               TRUE, << >>)>>]

DecodeRegex(args, blockContentLines) ==
  IF ~MapHas(args, <<"name">>) \/ MapGet(args, <<"name">>) = << >>
    THEN [threw |-> TRUE, exps |-> << >>]
    ELSE [threw |-> FALSE,
          exps |-> <<RegexExpectation(
                       MapGet(args, <<"name">>),
                       \A k \in 1..Len(blockContentLines) :
                         ~IsNoMatchLine(blockContentLines[k]),
                       CapturesOf(SelectSeq(
                         SelectSeq(blockContentLines, IsTableLine),
                         IsCaptureRow)))>>]

\* Array.prototype.join(" ")
RECURSIVE JoinSp(_)
JoinSp(ls) ==
  IF Len(ls) = 0 THEN << >>
  ELSE IF Len(ls) = 1 THEN ls[1]
  ELSE ls[1] \o <<" ">> \o JoinSp(Tail(ls))

\* a match of /\[(\d+)-(\d+)\]/ at unit k: the digits s[k+1..aEnd] and
\* s[aEnd+2..bEnd]
RangeMatchOf(s, k, aEnd, bEnd) ==
  IF /\ s[k] = "["
     /\ aEnd >= k + 1
     /\ aEnd < Len(s)
     /\ s[aEnd + 1] = "-"
     /\ bEnd >= aEnd + 2
     /\ bEnd < Len(s)
     /\ s[bEnd + 1] = "]"
    THEN [ok |-> TRUE,
          range |-> [startLine |-> ParseInt(SubSeq(s, k + 1, aEnd)).val,
                     endLine |-> ParseInt(SubSeq(s, aEnd + 2, bEnd)).val],
          end |-> bEnd + 1]
    ELSE [ok |-> FALSE]

RangeMatchFrom(s, k, aEnd) ==
  RangeMatchOf(s, k, aEnd, RunEnd(s, aEnd + 2, IsDigitTok))

RangeMatchAt(s, k) == RangeMatchFrom(s, k, RunEnd(s, k + 1, IsDigitTok))

RangeMatchStarts(s, p) == {k \in p..Len(s) : RangeMatchAt(s, k).ok}

\* the exec loop of the folding decoder from unit p on
RECURSIVE RangesFrom(_, _)
\* a variant that rejects the ranges that end before they start
RangesWithOrdered(s, m) ==
  (IF m.range.startLine <= m.range.endLine THEN <<m.range>> ELSE << >>)
    \o RangesFrom(s, m.end + 1)

RangesWith(s, m) == <<m.range>> \o RangesFrom(s, m.end + 1)

RangesFrom(s, p) ==
  IF RangeMatchStarts(s, p) = {}
    THEN << >>
    ELSE RangesWith(s, RangeMatchAt(s, Least(RangeMatchStarts(s, p))))

DecodeFolding(blockContentLines) ==
  [threw |-> FALSE,
   exps |-> <<[type |-> "folding",
               ranges |-> RangesFrom(Trim(JoinSp(blockContentLines)), 1)]>>]

(***************************************************************************)
(* The indentation trees.  A tree is the sequence of its nodes in the      *)
(* order they were inserted, each with the index of its parent in that     *)
(* sequence (0 for a member of roots); the children of a node are the      *)
(* nodes naming it as parent, in insertion order.                          *)
(***************************************************************************)

\* raw.replace(/\t/g, "    ")
RECURSIVE ExpandTabs(_)
ExpandTabs(s) ==
  IF Len(s) = 0 THEN << >>
  ELSE IF s[1] = "\t" THEN <<" ", " ", " ", " ">> \o ExpandTabs(Tail(s))
  ELSE <<s[1]>> \o ExpandTabs(Tail(s))

\* the units that begin with the character #
HashToks == {"#", "#+NAME:", "#+name:", "#+BEGIN_FIXTURE", "#+begin_fixture",
             "#+END_FIXTURE", "#+end_fixture", "#+EXPECTED:", "#+expected:"}

\* line.trim().startsWith("#")
IsCommentLine(l) ==
  LeadingSpaces(l) < Len(l) /\ l[LeadingSpaces(l) + 1] \in HashToks

\* a variant that pops one entry of depth >= depth at most
PopStackOnce(nodeStack, depth) ==
  IF Len(nodeStack) > 0 /\ nodeStack[Len(nodeStack)].depth >= depth
    THEN SubSeq(nodeStack, 1, Len(nodeStack) - 1)
    ELSE nodeStack

\* a variant that pops the entries of depth > depth only
RECURSIVE PopStackDeeper(_, _)
PopStackDeeper(nodeStack, depth) ==
  IF Len(nodeStack) > 0 /\ nodeStack[Len(nodeStack)].depth > depth
    THEN PopStackDeeper(SubSeq(nodeStack, 1, Len(nodeStack) - 1), depth)
    ELSE nodeStack

\* the while loop that pops the entries of depth >= depth
RECURSIVE PopStack(_, _)
PopStack(nodeStack, depth) ==
  IF Len(nodeStack) > 0 /\ nodeStack[Len(nodeStack)].depth >= depth
    THEN PopStack(SubSeq(nodeStack, 1, Len(nodeStack) - 1), depth)
    ELSE nodeStack

\* a variant that attaches a nested node to the node inserted last
PushNodeUnderLast(st, popped, depth, node) ==
  [assertions |-> st.assertions,
   tree |-> Append(st.tree,
                   [node |-> node,
                    parent |-> IF Len(popped) = 0 THEN 0 ELSE Len(st.tree)]),
   nodeStack |-> Append(popped, [depth |-> depth, node |-> Len(st.tree) + 1])]

\* roots.push(node) or children.push(node) of the top of the popped stack,
\* then nodeStack.push
PushNode(st, popped, depth, node) ==
  [assertions |-> st.assertions,
   tree |-> Append(st.tree,
                   [node |-> node,
                    parent |-> IF Len(popped) = 0 THEN 0
                               ELSE popped[Len(popped)].node]),
   nodeStack |-> Append(popped, [depth |-> depth, node |-> Len(st.tree) + 1])]

\* the depth-based insertion of one node
InsertNode(st, depth, node) ==
  PushNode(st, PopStack(st.nodeStack, depth), depth, node)

EmptyTree == [assertions |-> << >>, tree |-> << >>, nodeStack |-> << >>]

\* the table of common/src/scoping.ts, for the names used in the model
ScopeKeyToks == {"META_DOCUMENT", "PARAGRAPH", "UNBOUND"}

IsScopeKeyTok(t) == t \in WordToks \cup ScopeKeyToks

ScopeBound(key) == key \in {<<"META_DOCUMENT">>, <<"PARAGRAPH">>}

ScopeValue(key) ==
  IF key = <<"META_DOCUMENT">> THEN <<"text.org">> ELSE <<"markup.paragraph.org">>

\* a match of /\{\{\s*scopes\.([A-Za-z0-9_]+)\s*\}\}/ at the start of s:
\* whitespace s[2..w1], the key s[w1+2..kEnd], whitespace s[kEnd+1..w2]
TemplateMatchOf(s, w1, kEnd, w2) ==
  IF /\ Len(s) > 0
     /\ s[1] = "{{"
     /\ w1 < Len(s)
     /\ s[w1 + 1] = "scopes."
     /\ kEnd >= w1 + 2
     /\ w2 < Len(s)
     /\ s[w2 + 1] = "}}"
    THEN [ok |-> TRUE, key |-> SubSeq(s, w1 + 2, kEnd), end |-> w2 + 1]
    ELSE [ok |-> FALSE]

TemplateMatchKey(s, w1, kEnd) ==
  TemplateMatchOf(s, w1, kEnd, RunEnd(s, kEnd + 1, IsSpaceTok))

TemplateMatchFrom(s, w1) ==
  TemplateMatchKey(s, w1, RunEnd(s, w1 + 2, IsScopeKeyTok))

TemplateMatch(s) == TemplateMatchFrom(s, RunEnd(s, 2, IsSpaceTok))

\* right.replace(/\{\{\s*scopes\.([A-Za-z0-9_]+)\s*\}\}/g, ...)
RECURSIVE ResolveTemplates(_)
ResolveWith(s, m) ==
  IF m.ok
    THEN (IF ScopeBound(m.key) THEN ScopeValue(m.key) ELSE SubSeq(s, 1, m.end))
           \o ResolveTemplates(SubSeq(s, m.end + 1, Len(s)))
    ELSE <<s[1]>> \o ResolveTemplates(Tail(s))

ResolveTemplates(s) ==
  IF Len(s) = 0 THEN << >> ELSE ResolveWith(s, TemplateMatch(s))

\* line.replace(/^\s*-\s*/, "")
StripBullet(line) ==
  IF LeadingSpaces(line) < Len(line) /\ line[LeadingSpaces(line) + 1] = "-"
    THEN SubSeq(line, RunEnd(line, LeadingSpaces(line) + 2, IsSpaceTok) + 1,
                Len(line))
    ELSE line

IsQuoted(text, q) == Len(text) > 0 /\ text[1] = q /\ text[Len(text)] = q

\* text.slice(1, -1) when text is wrapped in quotes
Unquote(text) ==
  IF IsQuoted(text, "\"") \/ IsQuoted(text, "'")
    THEN SubSeq(text, 2, Len(text) - 1)
    ELSE text

\* the subject of an assertion: trimmed, quotes stripped, placeholders
AssertionText(left) == processExpectedValue(Unquote(Trim(left)))

IsNonEmpty(s) == s # << >>

IsNegated(scope) == StartsWith(scope, <<"!">>)

IsNotNegated(scope) == ~IsNegated(scope)

\* right.split(",").map((s) => s.trim()).filter(Boolean)
RawScopes(right) == SelectSeq(TrimAll(Split(right, ",")), IsNonEmpty)

\* scope.substring(1) of each scope
Substring1(scopes) == [k \in 1..Len(scopes) |-> Tail(scopes[k])]

\* a variant that keeps the prefix of the negated scopes
AssertionFromKeepingPrefix(left, rawScopes) ==
  [text |-> AssertionText(left),
   mustContain |-> SelectSeq(rawScopes, IsNotNegated),
   mustNotContain |-> SelectSeq(rawScopes, IsNegated)]

AssertionFrom(left, rawScopes) ==
  [text |-> AssertionText(left),
   mustContain |-> SelectSeq(rawScopes, IsNotNegated),
   mustNotContain |-> Substring1(SelectSeq(rawScopes, IsNegated))]

\* the assertion of one scope line, idx being line.indexOf("=>")
AssertionAt(line, idx) ==
  AssertionFrom(SubSeq(line, 1, idx - 1),
                RawScopes(ResolveTemplates(Trim(SubSeq(line, idx + 1, Len(line))))))

AssertionOf(line) == AssertionAt(line, IndexOf(line, "=>"))

\* a variant that puts the assertion at the front of the flat list
ScopeAssertFront(st, depth, a) ==
  IF Len(a.mustContain) = 0 /\ Len(a.mustNotContain) = 0
    THEN st
    ELSE [InsertNode(st, depth, a) EXCEPT !.assertions = <<a>> \o @]

\* assertions.push and the insertion into the tree, when a scope was parsed
ScopeAssert(st, depth, a) ==
  IF Len(a.mustContain) = 0 /\ Len(a.mustNotContain) = 0
    THEN st
    ELSE [InsertNode(st, depth, a) EXCEPT !.assertions = Append(@, a)]

\* a variant in which a line without separator pops the stack
ScopeStrippedPopping(st, depth, line) ==
  IF ~Includes(line, "=>")
    THEN [st EXCEPT !.nodeStack = PopStack(@, depth)]
    ELSE ScopeAssert(st, depth, AssertionOf(line))

ScopeStripped(st, depth, line) ==
  IF ~Includes(line, "=>") THEN st ELSE ScopeAssert(st, depth, AssertionOf(line))

ScopeNormalized(st, normalized) ==
  IF IsBlankLine(normalized) \/ IsCommentLine(normalized)
    THEN st
    ELSE ScopeStripped(st, LeadingSpaces(normalized), StripBullet(normalized))

\* one iteration of the loop over blockContentLines of the scope decoder
ScopeLine(st, raw) == ScopeNormalized(st, ExpandTabs(raw))

RECURSIVE ScopeLines(_, _)
ScopeLines(st, blockContentLines) ==
  IF Len(blockContentLines) = 0 THEN st
  ELSE ScopeLines(ScopeLine(st, blockContentLines[1]), Tail(blockContentLines))

\* a variant that takes a comment line for content
hasNonBlankContent(blockContentLines) ==
  \E k \in 1..Len(blockContentLines) : ~IsBlankLine(blockContentLines[k])

hasMeaningfulContent(blockContentLines) ==
  \E k \in 1..Len(blockContentLines) :
    /\ ~IsBlankLine(blockContentLines[k])
    /\ ~IsCommentLine(blockContentLines[k])

ScopeResult(st, meaningful) ==
  IF Len(st.assertions) = 0 /\ meaningful
    THEN [threw |-> TRUE, exps |-> << >>]
    ELSE [threw |-> FALSE,
          exps |-> <<[type |-> "scope", assertions |-> st.assertions,
                      tree |-> st.tree]>>]

DecodeScope(blockContentLines) ==
  ScopeResult(ScopeLines(EmptyTree, blockContentLines),
              hasMeaningfulContent(blockContentLines))

\* a match of /\((\d+):(\d+)-(\d+):(\d+)\)/ at unit q, the four runs of
\* digits ending at aEnd, bEnd, cEnd, dEnd
PosGroupOf(s, q, aEnd, bEnd, cEnd, dEnd) ==
  IF /\ q <= Len(s) /\ s[q] = "("
     /\ aEnd >= q + 1 /\ aEnd < Len(s) /\ s[aEnd + 1] = ":"
     /\ bEnd >= aEnd + 2 /\ bEnd < Len(s) /\ s[bEnd + 1] = "-"
     /\ cEnd >= bEnd + 2 /\ cEnd < Len(s) /\ s[cEnd + 1] = ":"
     /\ dEnd >= cEnd + 2 /\ dEnd < Len(s) /\ s[dEnd + 1] = ")"
    THEN [ok |-> TRUE,
          startLine |-> ParseInt(SubSeq(s, q + 1, aEnd)).val,
          startChar |-> ParseInt(SubSeq(s, aEnd + 2, bEnd)).val,
          endLine |-> ParseInt(SubSeq(s, bEnd + 2, cEnd)).val,
          endChar |-> ParseInt(SubSeq(s, cEnd + 2, dEnd)).val]
    ELSE [ok |-> FALSE]

PosGroup3(s, q, aEnd, bEnd, cEnd) ==
  PosGroupOf(s, q, aEnd, bEnd, cEnd, RunEnd(s, cEnd + 2, IsDigitTok))

PosGroup2(s, q, aEnd, bEnd) ==
  PosGroup3(s, q, aEnd, bEnd, RunEnd(s, bEnd + 2, IsDigitTok))

PosGroup1(s, q, aEnd) == PosGroup2(s, q, aEnd, RunEnd(s, aEnd + 2, IsDigitTok))

PosGroupAt(s, q) == PosGroup1(s, q, RunEnd(s, q + 1, IsDigitTok))

\* the name s[ns..e] is followed by \s+ (ending at r) and the position group
NameEndsAt(s, ns, e, r) == e >= ns /\ r >= e + 1 /\ PosGroupAt(s, r + 1).ok

ValidNameEnd(s, ns, e) == NameEndsAt(s, ns, e, RunEnd(s, e + 1, IsSpaceTok))

NameEnds(s, ns) == {e \in ns..Len(s) : ValidNameEnd(s, ns, e)}

\* the first units of the name that let the pattern match, after the dash
\* at s[d] and the whitespace s[d+1..wsEnd]
NameStarts(s, d, wsEnd) == {ns \in (d + 1)..(wsEnd + 1) : NameEnds(s, ns) # {}}

SymbolNodeOf(name, g) ==
  [name |-> Trim(name), startLine |-> g.startLine, startChar |-> g.startChar,
   endLine |-> g.endLine, endChar |-> g.endChar]

SymbolNodeAt(s, ns, e) ==
  SymbolNodeOf(SubSeq(s, ns, e), PosGroupAt(s, RunEnd(s, e + 1, IsSpaceTok) + 1))

\* the greedy \s* gives way one unit at a time (the greatest start wins),
\* the lazy name grows one unit at a time (the least end wins)
SymbolMatchFrom(s, starts) ==
  IF starts = {}
    THEN [ok |-> FALSE]
    ELSE [ok |-> TRUE,
          node |-> SymbolNodeAt(s, Greatest(starts),
                                Least(NameEnds(s, Greatest(starts))))]

SymbolMatchAt(s, d) ==
  IF d > Len(s) \/ s[d] # "-"
    THEN [ok |-> FALSE]
    ELSE SymbolMatchFrom(s, NameStarts(s, d, RunEnd(s, d + 1, IsSpaceTok)))

\* line.match(/^\s*-\s*(.+?)\s+\((\d+):(\d+)-(\d+):(\d+)\)/)
SymbolMatch(s) == SymbolMatchAt(s, LeadingSpaces(s) + 1)

SymbolMatched(st, depth, match) ==
  IF ~match.ok THEN st ELSE InsertNode(st, depth, match.node)

SymbolNormalized(st, line) ==
  IF IsBlankLine(line) \/ IsCommentLine(line)
    THEN st
    ELSE SymbolMatched(st, LeadingSpaces(line), SymbolMatch(line))

\* one iteration of the loop over blockContentLines of the symbols decoder
SymbolLine(st, raw) == SymbolNormalized(st, ExpandTabs(raw))

RECURSIVE SymbolLines(_, _)
SymbolLines(st, blockContentLines) ==
  IF Len(blockContentLines) = 0 THEN st
  ELSE SymbolLines(SymbolLine(st, blockContentLines[1]), Tail(blockContentLines))

DecodeSymbols(blockContentLines) ==
  [threw |-> FALSE,
   exps |-> <<[type |-> "symbols",
               symbols |-> SymbolLines(EmptyTree, blockContentLines).tree]>>]

(***************************************************************************)
(* parseExpectedBlock.                                                     *)
(***************************************************************************)

\* the indices after currentIndex of the lines that end a content block
Terminators(ls, currentIndex) ==
  {j \in (currentIndex + 1)..(Len(ls) - 1) : IsBlockTerminator(At(ls, j))}

\* blockEndIndex of the directive at currentIndex: the line before the
\* first terminator after it, or the last line
BlockEndIndex(ls, currentIndex) ==
  IF Terminators(ls, currentIndex) # {}
    THEN Least(Terminators(ls, currentIndex)) - 1
    ELSE Len(ls) - 1

\* the lines from..to, 0-based and inclusive: lines.slice(from, to + 1)
Slice(ls, from, to) == SubSeq(ls, from + 1, to + 1)

\* a variant that throws for a type it does not know
DecodeOfTypeStrict(testType, args, blockContentLines) ==
  CASE testType = <<"regex">> -> DecodeRegex(args, blockContentLines)
    [] testType = <<"scope">> -> DecodeScope(blockContentLines)
    [] testType = <<"folding">> -> DecodeFolding(blockContentLines)
    [] testType = <<"symbols">> -> DecodeSymbols(blockContentLines)
    [] OTHER -> [threw |-> TRUE, exps |-> << >>]

\* the dispatch on testType of one directive
DecodeOfType(testType, args, blockContentLines) ==
  CASE testType = <<"regex">> -> DecodeRegex(args, blockContentLines)
    [] testType = <<"scope">> -> DecodeScope(blockContentLines)
    [] testType = <<"folding">> -> DecodeFolding(blockContentLines)
    [] testType = <<"symbols">> -> DecodeSymbols(blockContentLines)
    [] OTHER -> [threw |-> FALSE, exps |-> << >>]

\* args.get("type"): the empty string stands for undefined too
DecodeWithArgs(args, blockContentLines) ==
  DecodeOfType(IF MapHas(args, <<"type">>) THEN MapGet(args, <<"type">>)
               ELSE << >>,
               args, blockContentLines)

DecodeBlock(expectedLine, blockContentLines) ==
  DecodeWithArgs(parseExpectedArgs(expectedLine), blockContentLines)

\* the index of the first line at or after k that is not blank
RECURSIVE SkipBlank(_, _)
SkipBlank(ls, k) ==
  IF k < Len(ls) /\ IsBlankLine(At(ls, k)) THEN SkipBlank(ls, k + 1) ELSE k

\* the while loop of parseExpectedBlock from currentIndex on; dirs is the
\* sequence of the indices of the directives that pushed an expectation
RECURSIVE ExpectedRun(_, _, _, _)
RunDecoded(ls, currentIndex, blockEndIndex, d, allExpectations, dirs) ==
  IF d.threw
    THEN [threw |-> TRUE, expectations |-> << >>, endIndex |-> 0,
          dirs |-> << >>]
    ELSE ExpectedRun(ls, SkipBlank(ls, blockEndIndex + 1),
                     allExpectations \o d.exps,
                     dirs \o [k \in 1..Len(d.exps) |-> currentIndex])

RunBlock(ls, currentIndex, blockEndIndex, allExpectations, dirs) ==
  RunDecoded(ls, currentIndex, blockEndIndex,
             DecodeBlock(At(ls, currentIndex),
                         Slice(ls, currentIndex + 1, blockEndIndex)),
             allExpectations, dirs)

ExpectedRun(ls, currentIndex, allExpectations, dirs) ==
  IF currentIndex < Len(ls) /\ IsExpectedLine(At(ls, currentIndex))
    THEN RunBlock(ls, currentIndex, BlockEndIndex(ls, currentIndex),
                  allExpectations, dirs)
    ELSE [threw |-> FALSE, expectations |-> allExpectations,
          endIndex |-> currentIndex - 1, dirs |-> dirs]

parseExpectedBlock(ls, startIndex) == ExpectedRun(ls, startIndex, << >>, << >>)

(***************************************************************************)
(* parseFixtureFile: one iteration of its for loop, and the whole call.    *)
(***************************************************************************)

\* the indices from contentStartIndex on of the fixture-close lines
EndLines(ls, contentStartIndex) ==
  {j \in contentStartIndex..(Len(ls) - 1) : IsEndLine(At(ls, j))}

\* contentEndIndex: the first fixture-close line at or after
\* contentStartIndex, or -1
ContentEndIndex(ls, contentStartIndex) ==
  IF EndLines(ls, contentStartIndex) # {}
    THEN Least(EndLines(ls, contentStartIndex))
    ELSE -1

\* a variant that drops the whitespace before the comma with the comma
StripCommaAndSpace(line) ==
  IF LeadingSpaces(line) < Len(line) /\ line[LeadingSpaces(line) + 1] = ","
    THEN SubSeq(line, LeadingSpaces(line) + 2, Len(line))
    ELSE line

\* the callback of fixtureLines.map: /^(\s*),(.*)/ gives match[1] + match[2]
StripComma(line) ==
  IF LeadingSpaces(line) < Len(line) /\ line[LeadingSpaces(line) + 1] = ","
    THEN SubSeq(line, 1, LeadingSpaces(line))
           \o SubSeq(line, LeadingSpaces(line) + 2, Len(line))
    ELSE line

\* line.replace(/^\s*#\+name:/i, "").trim(), for a fixture-name line
TestName(line) == Trim(SubSeq(line, LeadingSpaces(line) + 2, Len(line)))

ProcessedLines(fixtureLines) ==
  [k \in 1..Len(fixtureLines) |-> StripComma(fixtureLines[k])]

FixtureInput(ls, contentStartIndex, contentEndIndex) ==
  JoinNL(ProcessedLines(Slice(ls, contentStartIndex, contentEndIndex - 1)))

\* a variant that leaves out i = endIndex: the scan goes on after the
\* fixture-close line
PushedWithoutSkip(ls, k, contentEndIndex, lookaheadIndex, r) ==
  IF r.threw
    THEN [kind |-> "throw", next |-> k]
    ELSE [kind |-> "emit", next |-> contentEndIndex + 1,
          test |-> [name |-> TestName(At(ls, k)),
                    input |-> FixtureInput(ls, k + 2, contentEndIndex),
                    expectations |-> r.expectations],
          span |-> [name |-> k, close |-> contentEndIndex,
                    first |-> lookaheadIndex, end |-> r.endIndex,
                    dirs |-> r.dirs]]

\* an iteration of the for loop ends in one of five ways (kind); next is
\* the index of the next iteration (after the i++ of the loop)
Pushed(ls, k, contentEndIndex, lookaheadIndex, r) ==
  IF r.threw
    THEN [kind |-> "throw", next |-> k]
    ELSE [kind |-> "emit", next |-> r.endIndex + 1,
          test |-> [name |-> TestName(At(ls, k)),
                    input |-> FixtureInput(ls, k + 2, contentEndIndex),
                    expectations |-> r.expectations],
          span |-> [name |-> k, close |-> contentEndIndex,
                    first |-> lookaheadIndex, end |-> r.endIndex,
                    dirs |-> r.dirs]]

Lookahead(ls, k, contentEndIndex, lookaheadIndex) ==
  IF lookaheadIndex < Len(ls) /\ IsExpectedLine(At(ls, lookaheadIndex))
    THEN Pushed(ls, k, contentEndIndex, lookaheadIndex,
                parseExpectedBlock(ls, lookaheadIndex))
    ELSE [kind |-> "bare", next |-> contentEndIndex + 1]

Container(ls, k, contentEndIndex) ==
  IF contentEndIndex = -1
    THEN [kind |-> "unclosed", next |-> k + 1]
    ELSE Lookahead(ls, k, contentEndIndex, SkipBlank(ls, contentEndIndex + 1))

\* a variant that also passes over the line after a name line that no
\* open line follows
IterationPastNext(ls, k) ==
  IF ~IsNameLine(At(ls, k)) THEN [kind |-> "skip", next |-> k + 1]
  ELSE IF k + 1 >= Len(ls) \/ ~IsBeginLine(At(ls, k + 1))
    THEN [kind |-> "skip", next |-> k + 2]
  ELSE Container(ls, k, ContentEndIndex(ls, k + 2))

\* the body of the for loop for the index k < lines.length
Iteration(ls, k) ==
  IF ~IsNameLine(At(ls, k)) THEN [kind |-> "skip", next |-> k + 1]
  ELSE IF k + 1 >= Len(ls) \/ ~IsBeginLine(At(ls, k + 1))
    THEN [kind |-> "skip", next |-> k + 1]
  ELSE Container(ls, k, ContentEndIndex(ls, k + 2))

\* the for loop from index k on, with the tests pushed so far
RECURSIVE ScanFrom(_, _, _)
ScanWith(ls, acc, it) ==
  IF it.kind = "throw" THEN [threw |-> TRUE, tests |-> << >>]
  ELSE ScanFrom(ls, it.next,
                IF it.kind = "emit" THEN Append(acc, it.test) ELSE acc)

ScanFrom(ls, k, acc) ==
  IF k >= Len(ls) THEN [threw |-> FALSE, tests |-> acc]
  ELSE ScanWith(ls, acc, Iteration(ls, k))

\* the whole call on the text content
parseFixtureFile(content) == ScanFrom(SplitNL(content), 0, << >>)

(***************************************************************************)
(* The state machine: one call of parseFixtureFile, an action for each     *)
(* way an iteration of its loop ends.  tests is the local array; spans     *)
(* records, for each test pushed, the indices the iteration computed;      *)
(* returned is the value handed back to the caller.                        *)
(***************************************************************************)

\* an iteration that pushes nothing
Continue(kind, it) ==
  /\ it.kind = kind
  /\ i' = it.next
  /\ UNCHANGED <<lines, pc, tests, spans, returned, serverVars>>

\* a variant that puts the new test case first
PushFront(it) ==
  /\ it.kind = "emit"
  /\ tests' = <<it.test>> \o tests
  /\ spans' = <<it.span>> \o spans
  /\ i' = it.next
  /\ UNCHANGED <<lines, pc, returned, serverVars>>

Push(it) ==
  /\ it.kind = "emit"
  /\ tests' = Append(tests, it.test)
  /\ spans' = Append(spans, it.span)
  /\ i' = it.next
  /\ UNCHANGED <<lines, pc, returned, serverVars>>

\* a variant that hands the test cases pushed so far to the caller
ThrowPartial(it) ==
  /\ it.kind = "throw"
  /\ pc' = "thrown"
  /\ returned' = [ok |-> TRUE, tests |-> tests]
  /\ UNCHANGED <<lines, i, tests, spans, serverVars>>

Throw(it) ==
  /\ it.kind = "throw"
  /\ pc' = "thrown"
  /\ UNCHANGED <<lines, i, tests, spans, returned, serverVars>>

\* a line that starts no fixture container
ScanSkip ==
  /\ pc = "scan" /\ i < Len(lines)
  /\ Continue("skip", Iteration(lines, i))

\* a container without a fixture-close line
ScanUnclosed ==
  /\ pc = "scan" /\ i < Len(lines)
  /\ Continue("unclosed", Iteration(lines, i))

\* a container that no expectation directive follows
ScanBare ==
  /\ pc = "scan" /\ i < Len(lines)
  /\ Continue("bare", Iteration(lines, i))

\* a container with its run of expectation directives
ScanEmit ==
  /\ pc = "scan" /\ i < Len(lines)
  /\ Push(Iteration(lines, i))

\* parseExpectedBlock throws
ScanThrow ==
  /\ pc = "scan" /\ i < Len(lines)
  /\ Throw(Iteration(lines, i))

\* return tests
Return ==
  /\ pc = "scan" /\ i >= Len(lines)
  /\ pc' = "done"
  /\ returned' = [ok |-> TRUE, tests |-> tests]
  /\ UNCHANGED <<lines, i, tests, spans, serverVars>>

Next == ScanSkip \/ ScanUnclosed \/ ScanBare \/ ScanEmit \/ ScanThrow \/ Return

\* a variant of the entry that keeps the array of the call before
EnterKeepingTests(content) ==
  /\ lines' = SplitNL(content)
  /\ i' = 0
  /\ pc' = "scan"
  /\ UNCHANGED <<tests, spans, returned, serverVars>>

\* the entry of a call: const tests = [], const lines = content.split("\n")
\* and let i = 0; the value handed back by the call before stays with the
\* caller
Enter(content) ==
  /\ lines' = SplitNL(content)
  /\ tests' = << >>
  /\ spans' = << >>
  /\ i' = 0
  /\ pc' = "scan"
  /\ UNCHANGED <<returned, serverVars>>

\* a further call, on any of the files, once the call before has ended
CallOn(files) ==
  /\ pc \in {"done", "thrown"}
  /\ \E ls \in files : Enter(JoinNL(ls))

(***************************************************************************)
(* The folds and the symbols of a syntax tree (common/src/folding.ts,      *)
(* server/src/features).  A syntax node is a record of its type, the rows  *)
(* of its start and end positions, the row of its headline child (-1 when  *)
(* it has none), the text of the item of the headline ("" when it has      *)
(* none) and the sequence of its children; columns are left out.           *)
(***************************************************************************)

NoHeadline == -1

\* a variant that folds a section that ends on the line of its headline
FoldOfSectionLoose(node) ==
  IF node.headline # NoHeadline /\ node.endRow - 1 >= node.headline
    THEN <<[startLine |-> node.headline, endLine |-> node.endRow - 1]>>
    ELSE << >>

\* the fold of a section: from its headline to the line before its end
FoldOfSection(node) ==
  IF node.headline # NoHeadline /\ node.endRow - 1 > node.headline
    THEN <<[startLine |-> node.headline, endLine |-> node.endRow - 1]>>
    ELSE << >>

\* the fold of a block, a drawer or a property drawer
FoldOfBlock(node) ==
  IF node.endRow > node.startRow
    THEN <<[startLine |-> node.startRow, endLine |-> node.endRow - 1]>>
    ELSE << >>

\* what traverse pushes for the node itself
FoldsAt(node) ==
  IF node.type = "section" THEN FoldOfSection(node)
  ELSE IF node.type \in {"block", "drawer", "property_drawer"}
    THEN FoldOfBlock(node)
  ELSE << >>

RECURSIVE traverse(_)
RECURSIVE TraverseChildren(_)
\* the loop over node.children
TraverseChildren(children) ==
  IF Len(children) = 0 THEN << >>
  ELSE traverse(children[1]) \o TraverseChildren(Tail(children))

traverse(node) == FoldsAt(node) \o TraverseChildren(node.children)

getTreeSitterFolds(tree) == traverse(tree.rootNode)

\* the map over the folds; FoldingRangeKind.Region is the string "region"
provideFoldingRanges(tree) ==
  [k \in 1..Len(getTreeSitterFolds(tree)) |->
     [startLine |-> getTreeSitterFolds(tree)[k].startLine,
      endLine |-> getTreeSitterFolds(tree)[k].endLine,
      kind |-> "region"]]

RECURSIVE SymbolOf(_)
RECURSIVE ChildSymbols(_)
\* the symbols of the sections among the children of a section
ChildSymbols(children) ==
  IF Len(children) = 0 THEN << >>
  ELSE (IF children[1].type = "section" /\ children[1].headline # NoHeadline
          THEN <<SymbolOf(children[1])>>
          ELSE << >>)
         \o ChildSymbols(Tail(children))

\* the symbol of a section with a headline
SymbolOf(node) ==
  [name |-> IF node.item = "" THEN "Untitled" ELSE node.item,
   kind |-> "String",
   range |-> [start |-> node.startRow, end |-> node.endRow],
   selectionRange |-> node.headline,
   children |-> ChildSymbols(node.children)]

RECURSIVE findSections(_)
RECURSIVE FindInChildren(_)
FindInChildren(children) ==
  IF Len(children) = 0 THEN << >>
  ELSE findSections(children[1]) \o FindInChildren(Tail(children))

findSections(node) ==
  IF node.type = "section"
    THEN (IF node.headline # NoHeadline THEN <<SymbolOf(node)>> ELSE << >>)
    ELSE FindInChildren(node.children)

provideDocumentSymbols(tree) == findSections(tree.rootNode)

(***************************************************************************)
(* The language server (server/src/server.ts).  phase is the position of   *)
(* the initialize handler: "idle" before the request, "runtime" while it   *)
(* awaits Parser.init(), "language" while it awaits Language.load(), and   *)
(* "returned".  parser is the module variable, with the language it was    *)
(* given; documents holds the open documents; reply is what the last       *)
(* request handler did: whether it called parser.parse, the language the   *)
(* parser had then, the tree it got, whether it threw and what it          *)
(* returned.                                                               *)
(***************************************************************************)

Capabilities ==
  [textDocumentSync |-> "Incremental", documentSymbolProvider |-> TRUE,
   foldingRangeProvider |-> TRUE]

NoReply ==
  [to |-> "none", parsed |-> FALSE, language |-> FALSE, threw |-> FALSE,
   tree |-> << >>, result |-> << >>]

\* the server before the initialize request
ServerStart ==
  /\ phase = "idle"
  /\ parser = [defined |-> FALSE, language |-> FALSE]
  /\ documents = {}
  /\ reply = NoReply
  /\ initializeResult = << >>

\* the initialize handler returns the capabilities, after the try block or
\* after its catch clause
ReturnCapabilities ==
  /\ phase' = "returned"
  /\ initializeResult' = <<Capabilities>>

\* connection.onInitialize up to await Parser.init()
Initialize ==
  /\ phase = "idle"
  /\ phase' = "runtime"
  /\ UNCHANGED <<parser, documents, reply, initializeResult, fixtureVars>>

\* Parser.init() settles: when it resolves and new Parser() succeeds the
\* parser is assigned and the handler awaits Language.load()
RuntimeSettled ==
  /\ phase = "runtime"
  /\ \E outcome \in {"created", "initFails", "newFails"} :
       IF outcome = "created"
         THEN /\ parser' = [defined |-> TRUE, language |-> FALSE]
              /\ phase' = "language"
              /\ UNCHANGED initializeResult
         ELSE /\ ReturnCapabilities
              /\ UNCHANGED parser
  /\ UNCHANGED <<documents, reply, fixtureVars>>

\* Language.load() settles: when it resolves and setLanguage succeeds the
\* parser has its language
LanguageSettled ==
  /\ phase = "language"
  /\ \E outcome \in {"set", "loadFails", "setFails"} :
       parser' = [parser EXCEPT !.language = (outcome = "set")]
  /\ ReturnCapabilities
  /\ UNCHANGED <<documents, reply, fixtureVars>>

Uris == {"a.org"}

\* the text document manager hears of an opened or closed document
DidOpen ==
  /\ \E uri \in Uris \ documents : documents' = documents \cup {uri}
  /\ UNCHANGED <<phase, parser, reply, initializeResult, fixtureVars>>

DidClose ==
  /\ \E uri \in documents : documents' = documents \ {uri}
  /\ UNCHANGED <<phase, parser, reply, initializeResult, fixtureVars>>

Replied(to, parsed, threw, tree, result) ==
  reply' = [to |-> to, parsed |-> parsed, language |-> parser.language,
            threw |-> threw, tree |-> tree, result |-> result]

\* a request handler: parser.parse is called when the document is open and
\* parser is assigned; parse gives a tree or null, and without a language
\* null or an exception; provided is what the feature makes of the tree
Handled(to, uri, outcome, tree, provided) ==
  IF uri \notin documents \/ ~parser.defined
    THEN outcome = "null" /\ Replied(to, FALSE, FALSE, << >>, << >>)
  ELSE IF outcome = "throw"
    THEN ~parser.language /\ Replied(to, TRUE, TRUE, << >>, << >>)
  ELSE IF outcome = "null"
    THEN Replied(to, TRUE, FALSE, << >>, << >>)
  ELSE parser.language /\ Replied(to, TRUE, FALSE, <<tree>>, provided)

(***************************************************************************)
(* The fixture files explored.  Each family is a fixed head, up to a       *)
(* bounded number of lines of a pool, and a fixed tail.                    *)
(***************************************************************************)

MaxBody == 4

MaxFixtureBody == 3

MaxScopeBody == 3

\* the sequences of at most n elements of S
BoundedSeq(S, n) == UNION {[1..m -> S] : m \in 0..n}

NameA == <<"#+NAME:", " ", "a">>

NameLowerB == <<"#+name:", " ", "b">>

Begin == <<"#+BEGIN_FIXTURE">>

BeginLower == <<"#+begin_fixture">>

End == <<"#+END_FIXTURE">>

EndLower == <<"#+end_fixture">>

ExpectedRegex ==
  <<"#+EXPECTED:", " ", ":", "type", " ", "regex", " ", ":", "name", " ", "r">>

ExpectedRegexNoName == <<"#+EXPECTED:", " ", ":", "type", " ", "regex">>

ExpectedFolding == <<"#+EXPECTED:", " ", ":", "type", " ", "folding">>

ExpectedLowerFolding == <<"#+expected:", " ", ":", "type", " ", "folding">>

ExpectedScope == <<"#+EXPECTED:", " ", ":", "type", " ", "scope">>

\* the state at the entry of a call on one of the files
StartCall(files) ==
  /\ \E ls \in files : lines = SplitNL(JoinNL(ls))
  /\ pc = "scan"
  /\ i = 0
  /\ tests = << >>
  /\ spans = << >>
  /\ returned = [ok |-> FALSE, tests |-> << >>]
  /\ ServerStart

\* four small files: an unclosed container, a container without
\* expectations, one with a folding expectation, one with a regex
\* directive that has no name
Frames ==
  {<<NameA, Begin>>, <<NameA, Begin, End>>,
   <<NameA, Begin, End, ExpectedFolding>>,
   <<NameA, Begin, End, ExpectedRegexNoName>>}

\* the structure of a file: directives in any order
StructurePool ==
  {NameA, Begin, End, ExpectedRegex, ExpectedFolding, ExpectedRegexNoName}

\* an open container, and a container with a run of two expectations
StructureHeads ==
  {<<NameA, Begin>>,
   <<NameLowerB, Begin, End, ExpectedRegex, ExpectedFolding>>}

StructureFiles ==
  {head \o body : head \in StructureHeads,
                  body \in BoundedSeq(StructurePool, MaxBody)}

Init == StartCall(StructureFiles)

Spec == Init /\ [][Next]_vars

\* the letter case of the directives
CasePool ==
  {NameLowerB, BeginLower, EndLower, End, ExpectedFolding,
   ExpectedLowerFolding}

CaseFiles ==
  Frames \cup {head \o body : head \in {<< >>, <<NameA, Begin, End>>},
                              body \in BoundedSeq(CasePool, MaxBody)}

InitCase == StartCall(CaseFiles)

SpecCase == InitCase /\ [][Next]_vars

\* the interior lines of a fixture: plain text, escaped text, escaped
\* directives, an expectation directive that is not escaped
BodyPool ==
  {<< >>, <<"x">>, <<",", "x">>, <<",", ",", "x">>, <<" ", ",", "x">>,
   <<"x", ",", "y">>, <<",", "#+NAME:", " ", "x">>, <<",", "#+BEGIN_FIXTURE">>,
   <<" ", ",", "#+END_FIXTURE">>,
   <<",", "#+EXPECTED:", " ", ":", "type", " ", "regex">>, ExpectedFolding}

BodyFiles ==
  Frames \cup {<<NameA, Begin>> \o body \o tail :
                 body \in BoundedSeq(BodyPool, MaxFixtureBody),
                 tail \in {<<End>>, <<End, ExpectedFolding>>}}

InitBody == StartCall(BodyFiles)

SpecBody == InitBody /\ [][Next]_vars

\* the content lines of a scope block
ScopePool ==
  {<< >>, <<" ">>, <<"#", " ", "x">>, <<"x">>, <<"x", " ", "=>", " ", "s">>,
   <<"x", " ", "=>", " ", ",">>, <<" ", "-", " ", "y", " ", "=>", " ", "!", "q">>,
   <<"*", " ", "h", " ", "=>", " ", "s">>}

ScopeHead == <<NameA, Begin, End, ExpectedScope>>

ScopeFiles ==
  Frames \cup {ScopeHead \o body : body \in BoundedSeq(ScopePool, MaxScopeBody)}

InitScope == StartCall(ScopeFiles)

SpecScope == InitScope /\ [][Next]_vars

\* calls one after the other, on the same file or on another
MaxCallBody == 2

CallPool == {ExpectedFolding, ExpectedRegex, ExpectedRegexNoName, NameA}

CallFiles ==
  Frames \cup {<<NameLowerB, Begin, End>> \o body :
                 body \in BoundedSeq(CallPool, MaxCallBody)}

Call == CallOn(CallFiles)

NextCalls == Next \/ Call

InitCalls == StartCall(CallFiles)

SpecCalls == InitCalls /\ [][NextCalls]_vars

\* the content of one expectation block after a container
MaxBlockBody == 3

\* the lines of a regex block: the negative-result keyword, capture rows, a
\* header row, a separator row, a row whose second cell is no number
RegexPool ==
  {<<"no-match">>, <<" ", "NO-MATCH", " ">>,
   <<"|", " ", "1", " ", "|", " ", "x", " ", "|">>,
   <<"|", " ", "2", " ", "|", " ", "y", " ", "|">>,
   <<"|", " ", "Group", " ", "#", " ", "|", " ", "Value", " ", "|">>,
   <<"|", "---", "|", "---", "|">>,
   <<"|", " ", "x", " ", "|", " ", "y", " ", "|">>}

RegexHead == <<NameA, Begin, End, ExpectedRegex>>

RegexFiles ==
  {RegexHead \o body : body \in BoundedSeq(RegexPool, MaxBlockBody)}

\* the lines of a scope block with headline-shaped lines, with and
\* without the separator
HeadlinePool ==
  {<<"x", " ", "=>", " ", "s">>, <<"*", " ", "h">>,
   <<"*", " ", "h", " ", "=>", " ", "s">>,
   <<" ", "*", "*", " ", "y", " ", "=>", " ", "q">>}

HeadlineFiles ==
  {ScopeHead \o body : body \in BoundedSeq(HeadlinePool, MaxBlockBody)}

ExpectedSymbols == <<"#+EXPECTED:", " ", ":", "type", " ", "symbols">>

SymbolsHead == <<NameA, Begin, End, ExpectedSymbols>>

\* assertion lines of a scope block at the depths 0, 1 and 2, a comment, a
\* line without separator and a line without scope
ScopeTreePool ==
  {<<"x", " ", "=>", " ", "s">>, <<" ", "y", " ", "=>", " ", "s">>,
   <<" ", " ", "-", " ", "x", " ", "=>", " ", "q">>, <<"#", " ", "x">>,
   <<"y">>, <<"y", " ", "=>">>}

\* node lines of a symbols block at the depths 0, 1 and 2, and a line
\* without range
SymbolsTreePool ==
  {<<"-", " ", "a", " ", "(", "0", ":", "0", "-", "3", ":", "0", ")">>,
   <<" ", "-", " ", "b", " ", "(", "1", ":", "0", "-", "2", ":", "0", ")">>,
   <<" ", " ", "-", " ", "h", " ", "(", "1", ":", "0", "-", "1", ":", "2", ")">>,
   <<"-", " ", "a">>}

TreeFiles ==
  {ScopeHead \o body : body \in BoundedSeq(ScopeTreePool, MaxBlockBody)}
    \cup {SymbolsHead \o body :
            body \in BoundedSeq(SymbolsTreePool, MaxBlockBody)}

\* assertion lines with several scopes: plain and negated scopes mixed,
\* blanks around the commas, empty items, a bare prefix
SplitPool ==
  {<<"x", " ", "=>", " ", "s", ",", " ", "!", "q">>,
   <<"y", " ", "=>", " ", "!", "q", ",", "s", " ", ",", " ", "!", "y", ",",
     "x">>,
   <<"x", " ", "=>", " ", ",", "s", ",", ",", "!", "q", ",">>,
   <<"y", " ", "=>", " ", "!">>}

SplitFiles == {ScopeHead \o body : body \in BoundedSeq(SplitPool, MaxBlockBody)}

\* assertion lines whose text holds placeholders: well-formed ones, one
\* without digits, and one that encloses another
ValuePool ==
  {<<"x", "<", "s", "p", ":", "2", ">", "y", " ", "=>", " ", "s">>,
   <<"<", "t", "a", "<", "s", "p", ":", "0", ">", "b", ">", " ", "=>", " ",
     "s">>,
   <<"<", "s", "p", ":", ">", "x", " ", "=>", " ", "s">>,
   <<"<", "t", "a", "b", ">", "<", "p", "i", "p", "e", ">", " ", "=>", " ",
     "s">>,
   <<"<", "s", "p", ":", "0", "3", ">", " ", "=>", " ", "s">>,
   <<"<", "s", "p", ":", "1", "0", ">", "y", " ", "=>", " ", "s">>}

ValueFiles == {ScopeHead \o body : body \in BoundedSeq(ValuePool, MaxBlockBody)}

\* directives with a key given twice, in two cases, with a value that is
\* blank, and without any argument
ArgsPool ==
  {<<"#+EXPECTED:", " ", ":", "type", " ", "regex", " ", ":", "name", " ", "a",
     " ", ":", "TYPE", " ", "folding">>,
   <<"#+EXPECTED:", " ", ":", "type", " ", "folding", " ", ":", "name", " ",
     "a", " ", ":", "name", " ", "b", " ", " ", ":", "type", " ", "regex">>,
   <<"#+EXPECTED:">>,
   <<"#+EXPECTED:", " ", ":", "name", " ", " ", ":", "type", " ", "symbols">>}

ArgsHead == <<NameA, Begin, End>>

ArgsFiles == {ArgsHead \o body : body \in BoundedSeq(ArgsPool, MaxBlockBody)}

\* lines of a folding block: a range, a range that ends before it starts,
\* two overlapping ranges on a line, and a range without end
FoldingPool ==
  {<<"[", "0", "-", "3", "]">>, <<"[", "3", "-", "1", "]">>,
   <<"[", "0", "-", "3", "]", " ", "[", "1", "-", "2", "]">>,
   <<"[", "1", "-", "]">>}

FoldingHead == <<NameA, Begin, End, ExpectedFolding>>

FoldingFiles ==
  {FoldingHead \o body : body \in BoundedSeq(FoldingPool, MaxBlockBody)}

ExpectedOther == <<"#+EXPECTED:", " ", ":", "type", " ", "other">>

\* directives without type, of a type that is not decoded and of the type
\* folding, and a content line
UntypedPool ==
  {<<"#+EXPECTED:">>, ExpectedOther, ExpectedFolding,
   <<"[", "0", "-", "3", "]">>}

UntypedFiles ==
  {ArgsHead \o body : body \in BoundedSeq(UntypedPool, MaxBlockBody)}

BlockFiles ==
  Frames \cup RegexFiles \cup HeadlineFiles \cup TreeFiles \cup SplitFiles
    \cup ValueFiles \cup ArgsFiles \cup FoldingFiles \cup UntypedFiles

InitBlocks == StartCall(BlockFiles)

SpecBlocks == InitBlocks /\ [][Next]_vars

(***************************************************************************)
(* The syntax trees explored and the requests of the language server.  A   *)
(* document is empty, a single element, or a section that starts on row 0  *)
(* with up to MaxChildren children; the children follow one another and    *)
(* end within their parent.                                                *)
(***************************************************************************)

MaxChildren == 1

Leaf(type, startRow, endRow) ==
  [type |-> type, startRow |-> startRow, endRow |-> endRow,
   headline |-> NoHeadline, item |-> "", children |-> << >>]

Section(startRow, headline, item, endRow, children) ==
  [type |-> "section", startRow |-> startRow, endRow |-> endRow,
   headline |-> headline, item |-> item, children |-> children]

LeafNodes ==
  {Leaf(t, 1, 2) : t \in {"block", "drawer", "property_drawer", "paragraph"}}
    \cup {Leaf("block", 1, 1), Leaf("drawer", 2, 3)}

InnerSections ==
  {Section(1, 1, "h", 3, << >>), Section(1, NoHeadline, "", 3, << >>),
   Section(1, 1, "", 2, << >>), Section(2, 2, "h", 3, << >>)}

\* the children follow one another and end by row endRow
InOrderWithin(children, endRow) ==
  /\ \A k \in 1..Len(children) : children[k].endRow <= endRow
  /\ \A k \in 1..Len(children) - 1 :
       children[k].endRow <= children[k + 1].startRow

TopSections ==
  {Section(0, headline, "h", endRow, children) :
     <<headline, endRow, children>> \in
       {t \in {0, NoHeadline} \X (1..3)
                 \X BoundedSeq(LeafNodes \cup InnerSections, MaxChildren) :
          InOrderWithin(t[3], t[2])}}

Root(children) ==
  [type |-> "document", startRow |-> 0, endRow |-> 4,
   headline |-> NoHeadline, item |-> "", children |-> children]

TreePool ==
  {[rootNode |-> Root(children)] :
     children \in {<< >>} \cup {<<n>> : n \in TopSections \cup LeafNodes}}

\* connection.onDocumentSymbol
OnDocumentSymbol ==
  /\ \E uri \in Uris, outcome \in {"tree", "null", "throw"},
        tree \in TreePool :
       Handled("documentSymbol", uri, outcome, tree, provideDocumentSymbols(tree))
  /\ UNCHANGED <<phase, parser, documents, initializeResult, fixtureVars>>

\* connection.onFoldingRanges
OnFoldingRanges ==
  /\ \E uri \in Uris, outcome \in {"tree", "null", "throw"},
        tree \in TreePool :
       Handled("foldingRange", uri, outcome, tree, provideFoldingRanges(tree))
  /\ UNCHANGED <<phase, parser, documents, initializeResult, fixtureVars>>

InitServer ==
  /\ ServerStart
  /\ lines = << >>
  /\ pc = "done"
  /\ i = 0
  /\ tests = << >>
  /\ spans = << >>
  /\ returned = [ok |-> FALSE, tests |-> << >>]

NextServer ==
  \/ Initialize
  \/ RuntimeSettled
  \/ LanguageSettled
  \/ DidOpen
  \/ DidClose
  \/ OnDocumentSymbol
  \/ OnFoldingRanges

SpecServer == InitServer /\ [][NextServer]_vars

(***************************************************************************)
(* Properties of parseFixtureFile.                                         *)
(***************************************************************************)

LineIndices == 0..(Len(lines) - 1)

IsStructureLine(l) == IsNameLine(l) \/ IsBeginLine(l) \/ IsEndLine(l)

\* a name line at k, an open line at k + 1 and a close line at c, with no
\* name, open or close line in between
PlainContainerAt(k, c) ==
  /\ k + 1 < Len(lines)
  /\ IsNameLine(At(lines, k))
  /\ IsBeginLine(At(lines, k + 1))
  /\ c >= k + 2 /\ c < Len(lines)
  /\ IsEndLine(At(lines, c))
  /\ \A j \in (k + 2)..(c - 1) : ~IsStructureLine(At(lines, j))

\* the first line at or after k that is not blank, if any, is no
\* expectation directive
NoRunAt(k) ==
  \A j \in k..(Len(lines) - 1) :
    (\A m \in k..(j - 1) : IsBlankLine(At(lines, m)))
      => ~IsExpectedLine(At(lines, j))

\* C1: a container at the head of the file that no run of expectation
\* directives follows yields a test case with no expectations, and with the
\* empty input when it has no interior line.
C1_BareContainerYieldsTest ==
  pc = "done" =>
    \A c \in LineIndices :
      PlainContainerAt(0, c) /\ NoRunAt(c + 1) =>
        /\ Len(returned.tests) >= 1
        /\ returned.tests[1].expectations = << >>
        /\ (c = 2 => returned.tests[1].input = << >>)

UpperTok(t) ==
  CASE t = "#+name:" -> "#+NAME:"
    [] t = "#+begin_fixture" -> "#+BEGIN_FIXTURE"
    [] t = "#+end_fixture" -> "#+END_FIXTURE"
    [] t = "#+expected:" -> "#+EXPECTED:"
    [] OTHER -> t

\* the file with every directive keyword in upper case
UpperDirectives(ls) ==
  [k \in 1..Len(ls) |-> [j \in 1..Len(ls[k]) |-> UpperTok(ls[k][j])]]

UpperResult == parseFixtureFile(JoinNL(UpperDirectives(lines)))

\* the names and the expectations of a sequence of test cases
Outline(ts) ==
  [t \in 1..Len(ts) |->
     [name |-> ts[t].name, expectations |-> ts[t].expectations]]

\* C2: the call on a file and the call on the same file with its directive
\* keywords in upper case fail together, and return test cases of the same
\* names and expectations.
C2_CaseInsensitiveThroughout ==
  /\ pc = "thrown" => UpperResult.threw
  /\ pc = "done" =>
       /\ ~UpperResult.threw
       /\ Outline(returned.tests) = Outline(UpperResult.tests)

\* C3: the close directive of an emitted test case terminates the nearest
\* preceding open directive: no other open directive lies between the open
\* and the close of the test case.
C3_CloseTerminatesNearestOpen ==
  \A t \in 1..Len(spans) :
    \A j \in (spans[t].name + 2)..(spans[t].close - 1) :
      ~IsBeginLine(At(lines, j))

\* a name line and an open line whose container has no close of its own
UnclosedAt(k) ==
  /\ k + 1 < Len(lines)
  /\ IsNameLine(At(lines, k))
  /\ IsBeginLine(At(lines, k + 1))
  /\ \A c \in LineIndices : ~PlainContainerAt(k, c)

\* a container with its close directive and a run of expectations
WellFormedAt(k) ==
  \E c \in LineIndices : PlainContainerAt(k, c) /\ ~NoRunAt(c + 1)

\* C4: in a file with a container that lacks its close, a call that
\* returns has emitted no test case for that container and a test case for
\* every well-formed container.
C4_UnclosedContainerDropped ==
  pc = "done" /\ (\E u \in LineIndices : UnclosedAt(u)) =>
    /\ \A u \in LineIndices :
         UnclosedAt(u) => \A t \in 1..Len(spans) : spans[t].name # u
    /\ \A k \in LineIndices :
         WellFormedAt(k) => \E t \in 1..Len(spans) : spans[t].name = k

\* the position of the comma of a line that begins with optional
\* whitespace and a comma
EscapeAt(l, d) ==
  l[d] = "," /\ \A j \in 1..(d - 1) : l[j] \in SpaceToks

\* the line without that one comma
Unescape(l) ==
  IF \E d \in 1..Len(l) : EscapeAt(l, d)
    THEN SubSeq(l, 1, (CHOOSE d \in 1..Len(l) : EscapeAt(l, d)) - 1)
           \o SubSeq(l, (CHOOSE d \in 1..Len(l) : EscapeAt(l, d)) + 1, Len(l))
    ELSE l

\* the lines strictly between the lines n + 1 and c, each without its
\* escape comma
Interior(n, c) == [k \in 1..(c - n - 2) |-> Unescape(At(lines, n + 1 + k))]

\* C5: the input of a test case is the lines strictly between its open
\* directive and its close directive, the first close after the open, each
\* without its one escape comma, joined with a newline.
C5_InputIsInterior ==
  \A t \in 1..Len(tests) :
    /\ IsBeginLine(At(lines, spans[t].name + 1))
    /\ IsEndLine(At(lines, spans[t].close))
    /\ \A j \in (spans[t].name + 2)..(spans[t].close - 1) :
         ~IsEndLine(At(lines, j))
    /\ tests[t].input = JoinNL(Interior(spans[t].name, spans[t].close))

C5_Witness ==
  /\ pc = "done"
  /\ Len(returned.tests) = 1
  /\ returned.tests[1].input = <<",", "x", "\n", " ", "x", "\n", "x", ",", "y">>

DirectiveToks ==
  {"#+NAME:", "#+name:", "#+BEGIN_FIXTURE", "#+begin_fixture",
   "#+END_FIXTURE", "#+end_fixture", "#+EXPECTED:", "#+expected:"}

\* a comma followed by directive text, after optional whitespace
IsEscapedDirective(l) ==
  \E d \in 1..(Len(l) - 1) : EscapeAt(l, d) /\ l[d + 1] \in DirectiveToks

\* C6: an escaped directive line is the name line, the open line, the close
\* line or an expectation directive of no test case, and when it lies in
\* the body of a test case it is in the input without its comma.
C6_EscapedDirectiveIsText ==
  \A k \in LineIndices :
    IsEscapedDirective(At(lines, k)) =>
      \A t \in 1..Len(spans) :
        /\ spans[t].name # k
        /\ spans[t].name + 1 # k
        /\ spans[t].close # k
        /\ spans[t].first # k
        /\ \A d \in 1..Len(spans[t].dirs) : spans[t].dirs[d] # k
        /\ (spans[t].name + 1 < k /\ k < spans[t].close =>
              SplitNL(tests[t].input)[k - spans[t].name - 1]
                = Unescape(At(lines, k)))

C6_Witness ==
  /\ pc = "done"
  /\ Len(returned.tests) = 1
  /\ IsEscapedDirective(At(lines, 2))
  /\ IsEscapedDirective(At(lines, 3))
  /\ returned.tests[1].input
       = <<"#+NAME:", " ", "x", "\n", " ", "#+END_FIXTURE">>

\* a file of one container and one scope directive; its lines from the
\* fifth on are the content of the scope block, as they hold no terminator
IsScopeFile == Len(lines) >= 4 /\ SubSeq(lines, 1, 4) = ScopeHead

ScopeContent == SubSeq(lines, 5, Len(lines))

\* a line that is neither blank nor a comment
IsMeaningfulLine(l) ==
  \E d \in 1..Len(l) :
    /\ l[d] \notin SpaceToks \cup HashToks
    /\ \A j \in 1..(d - 1) : l[j] \in SpaceToks

\* a meaningful line with a separator and a scope after the first separator
YieldsAssertion(l) ==
  /\ IsMeaningfulLine(l)
  /\ \E e \in 1..Len(l) :
       /\ l[e] = "=>"
       /\ \A j \in 1..(e - 1) : l[j] # "=>"
       /\ \E j \in (e + 1)..Len(l) : l[j] \notin SpaceToks \cup {","}

AssertingLines == {k \in 1..Len(ScopeContent) : YieldsAssertion(ScopeContent[k])}

MalformedScopeBlock ==
  /\ AssertingLines = {}
  /\ \E k \in 1..Len(ScopeContent) : IsMeaningfulLine(ScopeContent[k])

\* C7: the call on a file whose only expectation block is a scope block
\* fails exactly when the block has no assertion line and a line that is
\* neither blank nor a comment; otherwise it returns one scope expectation
\* with an assertion for each assertion line, and a block of blank and
\* comment lines only gives no assertions and the empty tree.
C7_ScopeThrowsIffMalformed ==
  IsScopeFile =>
    /\ pc = "thrown" => MalformedScopeBlock
    /\ pc = "done" =>
         /\ ~MalformedScopeBlock
         /\ Len(returned.tests) = 1
         /\ Len(returned.tests[1].expectations) = 1
         /\ returned.tests[1].expectations[1].type = "scope"
         /\ Len(returned.tests[1].expectations[1].assertions)
              = Cardinality(AssertingLines)
         /\ (AssertingLines = {} =>
               returned.tests[1].expectations[1].tree = << >>)

C7_Witness ==
  /\ pc = "thrown"
  /\ IsScopeFile
  /\ ScopeContent = << <<"#", " ", "x">>, <<"x", " ", "=>", " ", ",">> >>

\* a regex directive without a name argument
LacksName(l) ==
  /\ IsExpectedLine(l)
  /\ MapHas(parseExpectedArgs(l), <<"type">>)
  /\ MapGet(parseExpectedArgs(l), <<"type">>) = <<"regex">>
  /\ \/ ~MapHas(parseExpectedArgs(l), <<"name">>)
     \/ MapGet(parseExpectedArgs(l), <<"name">>) = << >>

\* the directives of the run of expectation blocks that starts at line d
RECURSIVE RunHeads(_)
RunHeads(d) ==
  IF d < Len(lines) /\ IsExpectedLine(At(lines, d))
    THEN {d} \cup RunHeads(SkipBlank(lines, BlockEndIndex(lines, d) + 1))
    ELSE {}

\* C8 (as stated): a call on a file that holds a regex directive without a
\* name does not return.
C8_AnyRegexWithoutNameThrows ==
  pc = "done" => \A k \in LineIndices : ~LacksName(At(lines, k))

\* C8 (amended): a call that returns has met no regex directive without a
\* name in the run of expectation blocks of any of its test cases: such a
\* directive in the run that follows a container makes the call fail.
C8_RegexWithoutNameInRunThrows ==
  pc = "done" =>
    \A t \in 1..Len(spans) :
      \A d \in RunHeads(spans[t].first) : ~LacksName(At(lines, d))

C8_Witness ==
  /\ pc = "thrown"
  /\ lines = <<NameA, Begin, End, ExpectedFolding, ExpectedRegexNoName>>

\* C9: a call that fails hands nothing to its caller, whatever it pushed
\* before, and takes no further step; a call that returns met no error.
C9_ErrorAbortsWholeFile ==
  /\ pc = "thrown" =>
       /\ returned = [ok |-> FALSE, tests |-> << >>]
       /\ ~ENABLED Next
  /\ pc = "done" => ~parseFixtureFile(JoinNL(lines)).threw

C9_Witness == pc = "thrown" /\ Len(tests) >= 1

\* the type argument of the directive at line d
DirectiveType(d) == MapGet(parseExpectedArgs(At(lines, d)), <<"type">>)

\* C10: the test cases are in the order of their name lines in the file,
\* and the expectations of each are in the order of their directives; the
\* call returns the test cases in that order.
C10_OrderPreserved ==
  /\ Len(spans) = Len(tests)
  /\ \A t \in 1..Len(tests) :
       /\ tests[t].name = Trim(Tail(Trim(At(lines, spans[t].name))))
       /\ \A u \in (t + 1)..Len(tests) : spans[t].end < spans[u].name
       /\ Len(tests[t].expectations) = Len(spans[t].dirs)
       /\ \A a \in 1..Len(spans[t].dirs) :
            /\ <<tests[t].expectations[a].type>> = DirectiveType(spans[t].dirs[a])
            /\ spans[t].name < spans[t].dirs[a]
            /\ \A b \in (a + 1)..Len(spans[t].dirs) :
                 spans[t].dirs[a] < spans[t].dirs[b]
  /\ pc = "done" => returned.tests = tests

C10_Witness ==
  /\ pc = "done"
  /\ Len(returned.tests) = 2
  /\ returned.tests[1].name = <<"b">>
  /\ returned.tests[2].name = <<"a">>
  /\ Len(returned.tests[1].expectations) = 2
  /\ Len(returned.tests[2].expectations) = 1

\* the outcome of the call on the file of the state, as a function of the
\* text alone
FreshResult == parseFixtureFile(JoinNL(lines))

\* C11: whatever calls came before, a call fails when and only when the
\* call on the same text alone fails, and returns the test cases that call
\* returns: two calls on the same text end alike.
C11_CallsAreIndependent ==
  /\ pc = "thrown" => FreshResult.threw
  /\ pc = "done" => ~FreshResult.threw /\ returned.tests = FreshResult.tests

\* a later call has pushed the test case that the call before returned
C11_Witness ==
  /\ pc = "scan"
  /\ returned.ok
  /\ Len(tests) = 1
  /\ Len(tests[1].expectations) = 2
  /\ returned.tests = tests

\* a file of one container and one regex directive; its lines from the
\* fifth on are the content of the regex block, as they hold no terminator
IsRegexFile == Len(lines) >= 4 /\ SubSeq(lines, 1, 4) = RegexHead

BlockContent == SubSeq(lines, 5, Len(lines))

IsNotSpace(t) == t \notin SpaceToks

\* a line equal to the negative-result keyword after trimming and
\* case-folding
IsNegativeLine(l) ==
  SelectSeq(l, IsNotSpace) \in {<<"no-match">>, <<"NO-MATCH">>}

HasNegativeLine == \E k \in 1..Len(BlockContent) : IsNegativeLine(BlockContent[k])

\* a table row whose second cell is a decimal integer
IsNumberedRow(l) ==
  /\ Len(l) >= 5
  /\ l[1] = "|" /\ l[2] = " " /\ l[3] \in DigitToks /\ l[4] = " " /\ l[5] = "|"

\* the expectation of the one block of the file
TheExpectation == returned.tests[1].expectations[1]

\* C12: the regex expectation of a block has captures exactly when it
\* should match; a block with a negative-result line should not match and
\* has no captures, whatever rows it holds, and a block without one should
\* match and has a capture for each numbered row.
C12_CapturesIffShouldMatch ==
  IsRegexFile /\ pc = "done" =>
    /\ TheExpectation.type = "regex"
    /\ TheExpectation.shouldMatch = ~HasNegativeLine
    /\ TheExpectation.hasCaptures = TheExpectation.shouldMatch
    /\ ~TheExpectation.shouldMatch => TheExpectation.captures = << >>
    /\ TheExpectation.shouldMatch =>
         Len(TheExpectation.captures)
           >= Cardinality({k \in 1..Len(BlockContent) :
                             IsNumberedRow(BlockContent[k])})

C12_Witness ==
  /\ IsRegexFile
  /\ pc = "done"
  /\ BlockContent = << <<"|", " ", "1", " ", "|", " ", "x", " ", "|">>,
                       <<" ", "NO-MATCH", " ">>,
                       <<"|", " ", "2", " ", "|", " ", "y", " ", "|">> >>
  /\ ~TheExpectation.shouldMatch

\* C13: the captures of a regex expectation are those of the rows whose
\* second cell is a decimal integer, so the index of every capture is a
\* number.
C13_CaptureIndexIsNumber ==
  IsRegexFile /\ pc = "done" /\ TheExpectation.shouldMatch =>
    /\ \A c \in 1..Len(TheExpectation.captures) :
         ~TheExpectation.captures[c].index.nan
    /\ Len(TheExpectation.captures)
         = Cardinality({k \in 1..Len(BlockContent) :
                          IsNumberedRow(BlockContent[k])})

\* the name line at i is not immediately followed by an open line
NameWithoutOpen ==
  /\ IsNameLine(At(lines, i))
  /\ i + 1 >= Len(lines) \/ ~IsBeginLine(At(lines, i + 1))

\* C14: a step of the scan at a name line that no open line immediately
\* follows pushes no test case and moves to the next line; a step that
\* pushes a test case is at a name line immediately followed by an open
\* line.
C14_NameNeedsOpen ==
  [][pc = "scan" /\ i < Len(lines) =>
       /\ NameWithoutOpen => i' = i + 1 /\ tests' = tests /\ pc' = "scan"
       /\ tests' # tests =>
            /\ ~NameWithoutOpen
            /\ IsNameLine(At(lines, i))
            /\ Len(tests') = Len(tests) + 1]_vars

\* the scan stands on a name line with its open line, after a name line
\* that it passed over
C14_Witness ==
  /\ pc = "scan"
  /\ tests = << >>
  /\ i >= 1 /\ i + 1 < Len(lines)
  /\ IsNameLine(At(lines, i - 1))
  /\ IsNameLine(At(lines, i))
  /\ IsBeginLine(At(lines, i + 1))

\* a line that ends the content block of an expectation directive: a name
\* directive, an open directive, an expectation directive, or a
\* headline-shaped line without the separator
IsTerminatorLine(l) ==
  \/ IsNameLine(l)
  \/ IsBeginLine(l)
  \/ IsExpectedLine(l)
  \/ IsHeadline(Trim(l)) /\ ~Includes(l, "=>")

\* the first such line after line s, or the length of the file
FirstTerminatorAfter(s) ==
  IF \E j \in (s + 1)..(Len(lines) - 1) : IsTerminatorLine(At(lines, j))
    THEN CHOOSE j \in (s + 1)..(Len(lines) - 1) :
           /\ IsTerminatorLine(At(lines, j))
           /\ \A m \in (s + 1)..(j - 1) : ~IsTerminatorLine(At(lines, m))
    ELSE Len(lines)

\* C15: the content block of each directive of a run ends just before the
\* first terminator line after the directive: the next directive of the
\* run is that line, and the run ends just before it when it is no
\* expectation directive, or at the last line of the file.
C15_BlockEndsAtFirstTerminator ==
  \A t \in 1..Len(spans) :
    \A a \in 1..Len(spans[t].dirs) :
      FirstTerminatorAfter(spans[t].dirs[a])
        = IF a < Len(spans[t].dirs) THEN spans[t].dirs[a + 1]
          ELSE spans[t].end + 1

\* a headline-shaped line: leading * characters followed by whitespace
IsHeadlineShaped(l) == IsHeadline(Trim(l))

\* the number of lines of the content of the file before the first
\* headline-shaped line without the separator
KeptLines ==
  IF \E k \in 1..Len(BlockContent) :
       IsHeadlineShaped(BlockContent[k]) /\ ~Includes(BlockContent[k], "=>")
    THEN (CHOOSE k \in 1..Len(BlockContent) :
            /\ IsHeadlineShaped(BlockContent[k])
            /\ ~Includes(BlockContent[k], "=>")
            /\ \A j \in 1..(k - 1) :
                 ~(IsHeadlineShaped(BlockContent[j])
                   /\ ~Includes(BlockContent[j], "=>"))) - 1
    ELSE Len(BlockContent)

\* the assertion lines among the first k lines of the content
AssertingUpTo(k) == {j \in 1..k : YieldsAssertion(BlockContent[j])}

\* C16: the block of a scope directive ends before the first
\* headline-shaped line without the separator and at no headline-shaped
\* line with the separator: such a line is decoded as an assertion whose
\* text starts with the * characters.
C16_HeadlineWithSeparatorIsContent ==
  IsScopeFile /\ pc = "done" =>
    /\ spans[1].end = 3 + KeptLines
    /\ Len(TheExpectation.assertions) = Cardinality(AssertingUpTo(KeptLines))
    /\ \A k \in 1..KeptLines :
         IsHeadlineShaped(BlockContent[k]) =>
           TheExpectation.assertions[Cardinality(AssertingUpTo(k))].text[1] = "*"

C16_Witness ==
  /\ IsScopeFile
  /\ pc = "done"
  /\ BlockContent = << <<"*", " ", "h", " ", "=>", " ", "s">>,
                       <<"*", " ", "h">>,
                       <<"x", " ", "=>", " ", "s">> >>
  /\ Len(TheExpectation.assertions) = 1

(***************************************************************************)
(* Properties of the trees of the scope and symbols decoders.  The tree    *)
(* of the model lists the nodes in the order of their insertion, each with *)
(* the index of its parent (0 for a root).                                 *)
(***************************************************************************)

IsSymbolsFile == Len(lines) >= 4 /\ SubSeq(lines, 1, 4) = SymbolsHead

IsTreeFile == IsScopeFile \/ IsSymbolsFile

\* a line of the content that makes a node
IsNodeLine(l) ==
  IF IsScopeFile THEN YieldsAssertion(l)
  ELSE IsMeaningfulLine(l) /\ SymbolMatch(l).ok

\* the node lines of the block, in order
NodeLines == SelectSeq(SubSeq(BlockContent, 1, KeptLines), IsNodeLine)

\* the indentation of the n-th node line
Depth(n) == LeadingSpaces(ExpandTabs(NodeLines[n]))

TheTree ==
  IF IsScopeFile THEN TheExpectation.tree ELSE TheExpectation.symbols

ParentOf(n) == TheTree[n].parent

\* the nodes before the n-th that are less indented
Shallower(n) == {m \in 1..(n - 1) : Depth(m) < Depth(n)}

\* the greatest element of a set of node indices, 0 for the empty set
Nearest(S) == IF S = {} THEN 0 ELSE CHOOSE x \in S : \A y \in S : y <= x

\* each node is the child of the nearest node before it that is less
\* indented, and a root when there is none
ChildOfNearestShallower ==
  /\ Len(TheTree) = Len(NodeLines)
  /\ \A n \in 1..Len(NodeLines) : ParentOf(n) = Nearest(Shallower(n))

\* C17 (as stated): each node is the child of the nearest preceding node
\* of smaller depth, a root when there is none, and so a node at the depth
\* of the first root is always a root.
C17_ChildOfNearestShallowerAlways ==
  IsTreeFile /\ pc = "done" =>
    /\ ChildOfNearestShallower
    /\ \A n \in 1..Len(NodeLines) : Depth(n) = Depth(1) => ParentOf(n) = 0

\* C17 (amended): each node is the child of the nearest preceding node of
\* smaller depth and a root when there is none; a node at the depth of the
\* first root is a root when no node before it is less indented than the
\* first root, and a child otherwise.
C17_ChildOfNearestShallower ==
  IsTreeFile /\ pc = "done" =>
    /\ ChildOfNearestShallower
    /\ \A n \in 1..Len(NodeLines) :
         Depth(n) = Depth(1) => (ParentOf(n) = 0 <=> Shallower(n) = {})

C17_Witness ==
  /\ IsSymbolsFile
  /\ pc = "done"
  /\ Len(NodeLines) = 3
  /\ Depth(1) = 1 /\ Depth(2) = 0 /\ Depth(3) = 1
  /\ ParentOf(3) = 2

\* the nodes before the n-th that have its indentation
SameDepth(n) == {m \in 1..(n - 1) : Depth(m) = Depth(n)}

\* C18 (as stated): a node is a sibling (same parent, or both roots) of
\* the nearest preceding node of the same depth.
C18_SiblingOfNearestSameDepth ==
  IsTreeFile /\ pc = "done" =>
    \A n \in 1..Len(NodeLines) :
      SameDepth(n) # {} => ParentOf(n) = ParentOf(Nearest(SameDepth(n)))

\* C18 (amended): a node is a sibling of the nearest preceding node of the
\* same depth when no node between the two is less indented, and it is
\* not its sibling when one is.
C18_SiblingUnlessShallowerBetween ==
  IsTreeFile /\ pc = "done" =>
    \A n \in 1..Len(NodeLines) :
      SameDepth(n) # {} =>
        (ParentOf(n) = ParentOf(Nearest(SameDepth(n)))
           <=> Nearest(Shallower(n)) < Nearest(SameDepth(n)))

C18_Witness ==
  /\ IsScopeFile
  /\ pc = "done"
  /\ Len(NodeLines) = 3
  /\ Depth(1) = 0 /\ Depth(2) = 1 /\ Depth(3) = 1
  /\ ParentOf(2) = 1 /\ ParentOf(3) = 1

\* the node lines after the n-th that are more indented than it, up to the
\* next node line that is not
DeeperRun(n) ==
  {c \in (n + 1)..Len(NodeLines) :
     \A m \in (n + 1)..c : Depth(m) > Depth(n)}

\* the children of the n-th node
ChildrenOf(n) == {c \in 1..Len(TheTree) : ParentOf(c) = n}

\* n is the parent of c, or the parent of one of its ancestors
RECURSIVE IsAncestor(_, _)
IsAncestor(n, c) ==
  /\ ParentOf(c) # 0
  /\ (ParentOf(c) = n \/ IsAncestor(n, ParentOf(c)))

DescendantsOf(n) == {c \in 1..Len(TheTree) : IsAncestor(n, c)}

\* C19 (as stated): the children of a node are exactly the node lines
\* after it that are more indented than it, up to the next line that is
\* not.
C19_ChildrenAreDeeperRun ==
  IsTreeFile /\ pc = "done" =>
    /\ Len(TheTree) = Len(NodeLines)
    /\ \A n \in 1..Len(NodeLines) : ChildrenOf(n) = DeeperRun(n)

\* C19 (amended): the descendants of a node are exactly the node lines
\* after it that are more indented than it, up to the next line that is
\* not; its children are those of them with no less indented line of the
\* run before them.
C19_DescendantsAreDeeperRun ==
  IsTreeFile /\ pc = "done" =>
    /\ Len(TheTree) = Len(NodeLines)
    /\ \A n \in 1..Len(NodeLines) :
         /\ DescendantsOf(n) = DeeperRun(n)
         /\ ChildrenOf(n) =
              {c \in DeeperRun(n) :
                 \A m \in (n + 1)..(c - 1) : Depth(m) >= Depth(c)}

C19_Witness ==
  /\ IsSymbolsFile
  /\ pc = "done"
  /\ Len(NodeLines) = 3
  /\ Depth(1) = 0 /\ Depth(2) = 1 /\ Depth(3) = 2
  /\ ChildrenOf(1) = {2}
  /\ DescendantsOf(1) = {2, 3}

\* the pre-order traversal of the nodes below p (0 for the roots), from the
\* k-th node on: the children in the order of their insertion, each one
\* followed by its own subtree
RECURSIVE PreOrderFrom(_, _, _)
PreOrderFrom(tree, p, k) ==
  IF k > Len(tree) THEN << >>
  ELSE IF tree[k].parent = p
    THEN <<k>> \o PreOrderFrom(tree, k, 1) \o PreOrderFrom(tree, p, k + 1)
    ELSE PreOrderFrom(tree, p, k + 1)

PreOrder(tree) == PreOrderFrom(tree, 0, 1)

Project(node) ==
  [text |-> node.text,
   mustContain |-> node.mustContain,
   mustNotContain |-> node.mustNotContain]

\* the nodes of the tree in pre-order, projected to the fields of an
\* assertion
FlatView(tree) ==
  [k \in 1..Len(PreOrder(tree)) |-> Project(tree[PreOrder(tree)[k]].node)]

\* C20: the pre-order traversal of the tree of a scope expectation,
\* projected to text, mustContain and mustNotContain, is its list of
\* assertions: same length, same elements, same order.
C20_TreeFlattensToAssertions ==
  IsScopeFile /\ pc = "done" =>
    /\ Len(PreOrder(TheExpectation.tree)) = Len(TheExpectation.tree)
    /\ FlatView(TheExpectation.tree) = TheExpectation.assertions

C20_Witness ==
  /\ IsScopeFile
  /\ pc = "done"
  /\ Len(TheExpectation.assertions) = 3
  /\ TheExpectation.assertions[1] # TheExpectation.assertions[2]
  /\ TheExpectation.assertions[2] # TheExpectation.assertions[3]
  /\ PreOrder(TheExpectation.tree) = <<1, 2, 3>>
  /\ ParentOf(2) = 1
  /\ ParentOf(3) = 0

\* the state of the decoder of the block after the lines it is given
StateAfter(blockContentLines) ==
  IF IsScopeFile THEN ScopeLines(EmptyTree, blockContentLines)
  ELSE SymbolLines(EmptyTree, blockContentLines)

\* C21: a skipped line of a scope or symbols block (blank, comment, scope
\* line without a usable assertion, symbol line of another shape) leaves
\* the depth stack and the roots as they are whatever its indentation, so
\* the block without its skipped lines decodes to the same tree.
C21_SkippedLineLeavesTree ==
  IsTreeFile /\ pc = "done" =>
    /\ \A k \in 1..KeptLines :
         ~IsNodeLine(BlockContent[k]) =>
           StateAfter(SubSeq(BlockContent, 1, k)) =
             StateAfter(SubSeq(BlockContent, 1, k - 1))
    /\ StateAfter(NodeLines).tree = TheTree

C21_Witness ==
  /\ IsScopeFile
  /\ pc = "done"
  /\ Len(BlockContent) = 3
  /\ BlockContent[2] = <<"y">>
  /\ Len(NodeLines) = 2
  /\ Depth(1) = 0 /\ Depth(2) = 1
  /\ ParentOf(2) = 1

(***************************************************************************)
(* Properties of the assertions of a scope block.                          *)
(***************************************************************************)

\* what follows the first separator of a line
RightOf(l) ==
  SubSeq(l, (CHOOSE e \in 1..Len(l) :
               l[e] = "=>" /\ \A j \in 1..(e - 1) : l[j] # "=>") + 1, Len(l))

\* the position of the first comma of r after position a, or the position
\* after the end of r
NextComma(r, a) ==
  IF \E k \in (a + 1)..Len(r) : r[k] = ","
    THEN CHOOSE k \in (a + 1)..Len(r) :
           r[k] = "," /\ \A j \in (a + 1)..(k - 1) : r[j] # ","
    ELSE Len(r) + 1

\* the items of r between the commas after position a, blanks around them
\* removed, the empty ones left out
RECURSIVE ItemsAfter(_, _)
ItemsAfter(r, a) ==
  IF a > Len(r) THEN << >>
  ELSE (IF Trim(SubSeq(r, a + 1, NextComma(r, a) - 1)) = << >>
          THEN << >>
          ELSE <<Trim(SubSeq(r, a + 1, NextComma(r, a) - 1))>>)
         \o ItemsAfter(r, NextComma(r, a))

HasPrefix(item) == Len(item) > 0 /\ item[1] = "!"

HasNoPrefix(item) == ~HasPrefix(item)

WithoutPrefix(items) == [k \in 1..Len(items) |-> SubSeq(items[k], 2, Len(items[k]))]

\* C22: the right-hand side of an assertion is split on commas into trimmed
\* tokens; the tokens with the prefix ! give mustNotContain (without the
\* prefix), the others give mustContain, both in the order of the line.
C22_ScopesSplitByPrefix ==
  IsScopeFile /\ pc = "done" =>
    /\ Len(TheExpectation.assertions) = Len(NodeLines)
    /\ \A n \in 1..Len(NodeLines) :
         /\ TheExpectation.assertions[n].mustContain =
              SelectSeq(ItemsAfter(RightOf(NodeLines[n]), 0), HasNoPrefix)
         /\ TheExpectation.assertions[n].mustNotContain =
              WithoutPrefix(
                SelectSeq(ItemsAfter(RightOf(NodeLines[n]), 0), HasPrefix))

C22_Witness ==
  /\ IsScopeFile
  /\ pc = "done"
  /\ Len(TheExpectation.assertions) = 2
  /\ TheExpectation.assertions[1] =
       [text |-> <<"x">>, mustContain |-> << <<"s">> >>,
        mustNotContain |-> << <<"q">> >>]
  /\ TheExpectation.assertions[2].mustContain = << <<"s">>, <<"x">> >>
  /\ TheExpectation.assertions[2].mustNotContain = << <<"q">>, <<"y">> >>

(***************************************************************************)
(* Properties of the value normalizer, read off the text of the assertions *)
(* of a scope block.                                                       *)
(***************************************************************************)

\* what precedes the first separator of a line, without the blanks around
\* it and without a leading bullet
BeforeSeparator(l) ==
  Trim(SubSeq(l, 1, (CHOOSE e \in 1..Len(l) :
                       l[e] = "=>" /\ \A j \in 1..(e - 1) : l[j] # "=>") - 1))

LeftText(l) ==
  IF BeforeSeparator(l) # << >> /\ BeforeSeparator(l)[1] = "-"
    THEN Trim(Tail(BeforeSeparator(l)))
    ELSE BeforeSeparator(l)

DigitChars == <<"0", "1", "2", "3", "4", "5", "6", "7", "8", "9">>

\* the number written by a sequence of digits
RECURSIVE NumberOf(_)
NumberOf(ds) ==
  IF ds = << >> THEN 0
  ELSE 10 * NumberOf(SubSeq(ds, 1, Len(ds) - 1))
         + (CHOOSE v \in 0..9 : DigitChars[v + 1] = ds[Len(ds)])

IsDigits(ds) ==
  ds # << >> /\ \A k \in 1..Len(ds) : \E v \in 1..10 : DigitChars[v] = ds[k]

\* t holds a well-formed <sp:N> token from position a to position e
IsSpTokenAt(t, a, e) ==
  /\ a >= 1 /\ e <= Len(t) /\ e >= a + 5
  /\ SubSeq(t, a, a + 3) = <<"<", "s", "p", ":">>
  /\ IsDigits(SubSeq(t, a + 4, e - 1))
  /\ t[e] = ">"

\* the end of the <sp:N> token at the start of t, 0 when there is none
SpTokenEnd(t) ==
  IF \E e \in 1..Len(t) : IsSpTokenAt(t, 1, e)
    THEN CHOOSE e \in 1..Len(t) : IsSpTokenAt(t, 1, e)
    ELSE 0

Blanks(n) == [k \in 1..n |-> " "]

BeginsWith(t, pat) == Len(t) >= Len(pat) /\ SubSeq(t, 1, Len(pat)) = pat

\* t with the tokens that occur in it replaced, from left to right, what a
\* replacement produces never being read again
RECURSIVE SinglePass(_)
SinglePass(t) ==
  IF t = << >> THEN << >>
  ELSE IF SpTokenEnd(t) > 0
    THEN Blanks(NumberOf(SubSeq(t, 5, SpTokenEnd(t) - 1)))
           \o SinglePass(SubSeq(t, SpTokenEnd(t) + 1, Len(t)))
  ELSE IF BeginsWith(t, <<"<", "t", "a", "b", ">">>)
    THEN <<"\t">> \o SinglePass(SubSeq(t, 6, Len(t)))
  ELSE IF BeginsWith(t, <<"<", "p", "i", "p", "e", ">">>)
    THEN <<"|">> \o SinglePass(SubSeq(t, 7, Len(t)))
  ELSE <<t[1]>> \o SinglePass(Tail(t))

\* C23: the normalized value is the input with the <sp:N>, <tab> and <pipe>
\* tokens of the input replaced; what a replacement produces or brings
\* together is not taken for a token, and a malformed token stays as it is.
C23_ReplacementIsSinglePass ==
  IsScopeFile /\ pc = "done" =>
    /\ Len(TheExpectation.assertions) = Len(NodeLines)
    /\ \A n \in 1..Len(NodeLines) :
         TheExpectation.assertions[n].text = SinglePass(LeftText(NodeLines[n]))

\* the same for the lines that hold no token within a token
C23_HoldsWithoutEnclosedToken ==
  IsScopeFile /\ pc = "done" =>
    /\ Len(TheExpectation.assertions) = Len(NodeLines)
    /\ \A n \in 1..Len(NodeLines) :
         (\A a \in 1..Len(NodeLines[n]) : \A e \in 1..Len(NodeLines[n]) :
            IsSpTokenAt(NodeLines[n], a, e) => a = 1 \/ NodeLines[n][a - 1] # "a")
           => TheExpectation.assertions[n].text
                = SinglePass(LeftText(NodeLines[n]))

\* the lines whose text holds one "<" only, that of a well-formed <sp:N>
\* token from position a to position e
HasOneSpToken(t, a, e) ==
  /\ IsSpTokenAt(t, a, e)
  /\ \A k \in 1..Len(t) : t[k] = "<" => k = a

\* the token of t is replaced by as many blanks as its number says
ReplacedByBlanks(t, a, e, out) ==
  out = SubSeq(t, 1, a - 1) \o Blanks(NumberOf(SubSeq(t, a + 4, e - 1)))
          \o SubSeq(t, e + 1, Len(t))

\* the well-formed <sp:N> tokens of t, when t holds one "<" only
OnlySpTokens(t) ==
  {ae \in {k \in 1..Len(t) : t[k] = "<"} \X {k \in 1..Len(t) : t[k] = ">"} :
     HasOneSpToken(t, ae[1], ae[2])}

\* the digits of the token of t from position a to position e
TokenDigits(t, a, e) == SubSeq(t, a + 4, e - 1)

StatedLengths(t, a, e, out) ==
  /\ ReplacedByBlanks(t, a, e, out)
  /\ e - a + 1 = 4 + Len(TokenDigits(t, a, e))
  /\ Len(out) = Len(t) + NumberOf(TokenDigits(t, a, e)) - 4

ActualLengths(t, a, e, out) ==
  /\ ReplacedByBlanks(t, a, e, out)
  /\ e - a + 1 = 5 + Len(TokenDigits(t, a, e))
  /\ Len(out) =
       Len(t) + NumberOf(TokenDigits(t, a, e)) - (5 + Len(TokenDigits(t, a, e)))

StatedLengthsOf(t, out) ==
  \A ae \in OnlySpTokens(t) : StatedLengths(t, ae[1], ae[2], out)

ActualLengthsOf(t, out) ==
  \A ae \in OnlySpTokens(t) : ActualLengths(t, ae[1], ae[2], out)

StatedLengthsIn(nodeLines, assertions) ==
  \A n \in 1..Len(nodeLines) :
    StatedLengthsOf(LeftText(nodeLines[n]), assertions[n].text)

ActualLengthsIn(nodeLines, assertions) ==
  \A n \in 1..Len(nodeLines) :
    ActualLengthsOf(LeftText(nodeLines[n]), assertions[n].text)

\* C24 (as stated): a well-formed <sp:N> token is replaced by N blanks, and
\* the output is N - 4 longer than the input, the token taking 4 + len(N)
\* characters.
C24_LengthGrowsByNMinus4 ==
  IsScopeFile /\ pc = "done" =>
    StatedLengthsIn(NodeLines, TheExpectation.assertions)

\* C24 (amended): a well-formed <sp:N> token is replaced by N blanks; the
\* token takes 5 + len(N) characters, so the length of the output is that
\* of the input plus N - (5 + len(N)).
C24_TokenBecomesNBlanks ==
  IsScopeFile /\ pc = "done" =>
    ActualLengthsIn(NodeLines, TheExpectation.assertions)

C24_Witness ==
  /\ IsScopeFile
  /\ pc = "done"
  /\ Len(NodeLines) = 2
  /\ HasOneSpToken(LeftText(NodeLines[1]), 1, 7)
  /\ TheExpectation.assertions[1].text = Blanks(3)
  /\ HasOneSpToken(LeftText(NodeLines[2]), 2, 7)
  /\ TheExpectation.assertions[2].text = <<"x", " ", " ", "y">>

(***************************************************************************)
(* Properties of the directive argument reader.                            *)
(***************************************************************************)

\* the last position of the run of units of the class that starts at p
\* (p - 1 when the unit at p is not of the class)
RECURSIVE RunOf(_, _, _)
RunOf(l, p, class) ==
  IF p <= Len(l) /\ l[p] \in class THEN RunOf(l, p + 1, class) ELSE p - 1

AllUnits(l) == {l[k] : k \in 1..Len(l)}

KeyEnd(l, k) == RunOf(l, k + 1, WordToks)

ValueEnd(l, k) == RunOf(l, KeyEnd(l, k) + 1, AllUnits(l) \ ColonToks)

\* l holds a `:key value` occurrence at position k: a colon, a key, white
\* space, and at least one more character that is not a colon
IsOccurrence(l, k) ==
  /\ l[k] \in ColonToks
  /\ KeyEnd(l, k) >= k + 1
  /\ KeyEnd(l, k) < Len(l)
  /\ l[KeyEnd(l, k) + 1] \in SpaceToks
  /\ ValueEnd(l, k) >= KeyEnd(l, k) + 2

Occurrences(l) == {k \in 1..Len(l) : IsOccurrence(l, k)}

KeyAt(l, k) == ToLowerCase(SubSeq(l, k + 1, KeyEnd(l, k)))

ValueAt(l, k) == Trim(SubSeq(l, KeyEnd(l, k) + 1, ValueEnd(l, k)))

\* the last occurrence of l with the key of the occurrence at k
LastWithKeyOf(l, k) ==
  Nearest({j \in Occurrences(l) : KeyAt(l, j) = KeyAt(l, k)})

\* args maps the keys of the occurrences of l, and nothing else, each to
\* the value of its last occurrence
ArgsAsSpecified(l, args) ==
  /\ \A k \in Occurrences(l) :
       \E j \in 1..Len(args) :
         /\ args[j].key = KeyAt(l, k)
         /\ args[j].value = ValueAt(l, LastWithKeyOf(l, k))
  /\ \A j \in 1..Len(args) : \E k \in Occurrences(l) : args[j].key = KeyAt(l, k)
  /\ \A j \in 1..Len(args) : \A h \in 1..Len(args) :
       args[j].key = args[h].key => j = h

IsArgsFile ==
  /\ Len(lines) >= 3
  /\ SubSeq(lines, 1, 3) = ArgsHead
  /\ \A k \in 4..Len(lines) : lines[k] \in ArgsPool

\* the value the directive l gives the key type, << >> when it gives none
TypeOf(l) ==
  IF \E k \in Occurrences(l) : KeyAt(l, k) = <<"type">>
    THEN ValueAt(l, Nearest({k \in Occurrences(l) : KeyAt(l, k) = <<"type">>}))
    ELSE << >>

IsDecodedType(t) ==
  t \in {<<"regex">>, <<"scope">>, <<"folding">>, <<"symbols">>}

\* the types of the expectations of the first test case, as values
EmittedTypes ==
  [k \in 1..Len(returned.tests[1].expectations) |->
     <<returned.tests[1].expectations[k].type>>]

\* C25: parseExpectedArgs maps the lower-cased key of each `:key value`
\* occurrence of the line to the trimmed value of the last occurrence of
\* that key and holds nothing else (nothing at all for a line without
\* occurrence); the directives are decoded by the type so read.
C25_LastOccurrenceWins ==
  /\ \A k \in 1..Len(lines) :
       IsExpectedLine(lines[k]) =>
         ArgsAsSpecified(lines[k], parseExpectedArgs(lines[k]))
  /\ IsArgsFile /\ pc = "done" /\ Len(lines) > 3 =>
       EmittedTypes =
         SelectSeq([k \in 1..(Len(lines) - 3) |-> TypeOf(lines[k + 3])],
                   IsDecodedType)

C25_Witness ==
  /\ IsArgsFile
  /\ pc = "done"
  /\ Len(lines) = 6
  /\ parseExpectedArgs(lines[4]) =
       << [key |-> <<"type">>, value |-> <<"folding">>],
          [key |-> <<"name">>, value |-> <<"a">>] >>
  /\ parseExpectedArgs(lines[5]) = << >>
  /\ parseExpectedArgs(lines[6]) =
       << [key |-> <<"type">>, value |-> <<"regex">>],
          [key |-> <<"name">>, value |-> <<"b">>] >>
  /\ EmittedTypes = << <<"folding">>, <<"regex">> >>
  /\ returned.tests[1].expectations[2].name = <<"b">>

(***************************************************************************)
(* Properties of the folding-range decoder.                                *)
(***************************************************************************)

\* a folding directive whose content block runs to the end of the file
IsFoldingFile ==
  /\ Len(lines) >= 4
  /\ SubSeq(lines, 1, 4) = FoldingHead
  /\ \A k \in 5..Len(lines) : lines[k] \in FoldingPool

\* l holds a [digits-digits] occurrence from a to e, the dash being at m
IsRangeAt(l, a, m, e) ==
  /\ l[a] = "[" /\ l[m] = "-" /\ l[e] = "]"
  /\ IsDigits(SubSeq(l, a + 1, m - 1))
  /\ IsDigits(SubSeq(l, m + 1, e - 1))

RangesIn(l) ==
  {ame \in (1..Len(l)) \X (1..Len(l)) \X (1..Len(l)) :
     ame[1] < ame[2] /\ ame[2] < ame[3]
       /\ IsRangeAt(l, ame[1], ame[2], ame[3])}

PairOf(l, ame) ==
  [startLine |-> NumberOf(SubSeq(l, ame[1] + 1, ame[2] - 1)),
   endLine |-> NumberOf(SubSeq(l, ame[2] + 1, ame[3] - 1))]

\* the pairs of the occurrences of l that start at p or later, from left
\* to right
RECURSIVE PairsFrom(_, _)
PairsFrom(l, p) ==
  IF \A ame \in RangesIn(l) : ame[1] < p
    THEN << >>
    ELSE LET first == CHOOSE ame \in RangesIn(l) :
                        /\ ame[1] >= p
                        /\ \A o \in RangesIn(l) : o[1] >= p => ame[1] <= o[1]
         IN  <<PairOf(l, first)>> \o PairsFrom(l, first[3] + 1)

\* the pairs of the occurrences of the lines, line after line
RECURSIVE PairsOfLines(_)
PairsOfLines(ls) ==
  IF ls = << >> THEN << >>
  ELSE PairsFrom(ls[1], 1) \o PairsOfLines(Tail(ls))

\* C26: the ranges of a folding expectation are the pairs of the
\* [digits-digits] occurrences of the content lines, one for each, in the
\* order found; a pair that ends before it starts, a pair given twice and
\* overlapping pairs are kept.
C26_OnePairPerOccurrence ==
  IsFoldingFile /\ pc = "done" =>
    TheExpectation.ranges = PairsOfLines(BlockContent)

C26_Witness ==
  /\ IsFoldingFile
  /\ pc = "done"
  /\ TheExpectation.ranges =
       << [startLine |-> 3, endLine |-> 1],
          [startLine |-> 0, endLine |-> 3],
          [startLine |-> 1, endLine |-> 2],
          [startLine |-> 0, endLine |-> 3] >>

(***************************************************************************)
(* Termination of parseFixtureFile.                                        *)
(***************************************************************************)

\* an iteration of the scan starts below the number of lines and leaves
\* the index greater than it found it: Len(lines) - i is a variant of the
\* loop
ScanAdvances == pc = "scan" /\ pc' = "scan" => i < Len(lines) /\ i' > i

\* the call does not resume once it has returned or thrown
EndIsFinal == pc \in {"done", "thrown"} => pc' = pc

\* while the call has not ended, the loop can take a step: it returns, or
\* its iteration ends in one of the five ways
CanStep ==
  \/ pc \in {"done", "thrown"}
  \/ pc = "scan" /\ i >= Len(lines)
  \/ /\ pc = "scan"
     /\ Iteration(lines, i).kind \in {"skip", "unclosed", "bare", "emit", "throw"}

\* the indices of the directives of a run that gave an expectation grow,
\* within the lines of the run
RunInOrder(span) ==
  /\ \A d \in 1..Len(span.dirs) :
       span.first <= span.dirs[d] /\ span.dirs[d] <= span.end
  /\ \A d \in 2..Len(span.dirs) : span.dirs[d - 1] < span.dirs[d]

\* each test case pushed starts after the lines of the one before, and
\* the scan is past the last line of its run
SpansInOrder ==
  \A t \in 1..Len(spans) :
    /\ spans[t].name < spans[t].close
    /\ spans[t].close < spans[t].first
    /\ spans[t].first <= spans[t].end
    /\ spans[t].end < i
    /\ RunInOrder(spans[t])
    /\ t > 1 => spans[t - 1].end < spans[t].name

\* C27: parseFixtureFile terminates: while it has not ended it can take
\* a step, every iteration of the scan ends with a greater index below a
\* fixed bound, the scan resumes after the last line of the run of a test
\* case pushed, the directives of a run are taken in growing order, and no
\* line starts two test cases or two expectation blocks.
C27_ParseTerminates ==
  /\ []SpansInOrder
  /\ []CanStep
  /\ [][ScanAdvances /\ EndIsFinal]_vars

C27_Witness ==
  /\ pc = "done"
  /\ Len(spans) = 1
  /\ spans[1].dirs = <<3, 5>>
  /\ spans[1].end = 5
  /\ i = 6

(***************************************************************************)
(* Directives of a type that is not decoded.                               *)
(***************************************************************************)

IsDirective(l) == l # << >> /\ l[1] = "#+EXPECTED:"

\* a container followed at once by a run of directives of UntypedPool
IsUntypedFile ==
  /\ Len(lines) >= 4
  /\ SubSeq(lines, 1, 3) = ArgsHead
  /\ IsDirective(lines[4])
  /\ \A k \in 4..Len(lines) : lines[k] \in UntypedPool

\* the line after the content block of the directive lines[k]
ContentEnd(k) ==
  IF \E j \in (k + 1)..Len(lines) : IsDirective(lines[j])
    THEN CHOOSE j \in (k + 1)..Len(lines) :
           IsDirective(lines[j])
             /\ \A h \in (k + 1)..(j - 1) : ~IsDirective(lines[h])
    ELSE Len(lines) + 1

\* the expectations of the folding directives from lines[k] on, each with
\* the pairs of its own content block
RECURSIVE FoldingsFrom(_)
FoldingsFrom(k) ==
  IF k > Len(lines) THEN << >>
  ELSE IF IsDirective(lines[k]) /\ TypeOf(lines[k]) = <<"folding">>
    THEN <<[type |-> "folding",
            ranges |-> PairsOfLines(SubSeq(lines, k + 1, ContentEnd(k) - 1))]>>
           \o FoldingsFrom(k + 1)
    ELSE FoldingsFrom(k + 1)

\* C28: a directive without type, or of a type that is none of regex,
\* scope, folding and symbols, gives no expectation and no error; its
\* content block is consumed, the directives after it are decoded, and the
\* test case is emitted with the expectations of the directives decoded.
C28_UnknownTypeIsPassedOver ==
  IsUntypedFile /\ pc \in {"done", "thrown"} =>
    /\ pc = "done"
    /\ Len(returned.tests) = 1
    /\ returned.tests[1].expectations = FoldingsFrom(4)
    /\ spans[1].end = Len(lines) - 1

C28_Witness ==
  /\ IsUntypedFile
  /\ pc = "done"
  /\ Len(lines) = 6
  /\ lines[4] = ExpectedOther
  /\ lines[5] = <<"[", "0", "-", "3", "]">>
  /\ lines[6] = ExpectedFolding
  /\ returned.tests[1].expectations = <<[type |-> "folding", ranges |-> << >>]>>
  /\ spans[1].dirs = <<5>>

(***************************************************************************)
(* The language server: requests and Tree-sitter initialisation.           *)
(***************************************************************************)

Requests == {"documentSymbol", "foldingRange"}

\* C29: a document-symbol or folding-range request calls the parser only
\* if the initialisation completed every step, so that the parser has its
\* language; a request served without it throws nothing and returns an
\* empty list; and the initialize handler, once it has returned, has
\* returned the capabilities.
C29_ParserCalledOnlyWhenReady ==
  /\ reply.to \in Requests /\ reply.parsed => reply.language
  /\ reply.to \in Requests /\ ~reply.language =>
       ~reply.threw /\ reply.result = << >>
  /\ phase = "returned" => initializeResult = <<Capabilities>>

(***************************************************************************)
(* The folding ranges.                                                     *)
(***************************************************************************)

RECURSIVE NodesOf(_)
\* the node and the nodes below it
NodesOf(node) ==
  {node} \cup UNION {NodesOf(node.children[k]) :
                       k \in 1..Len(node.children)}

AllOrdered(folds) ==
  \A k \in 1..Len(folds) : folds[k].startLine <= folds[k].endLine

AllStrict(folds) ==
  \A k \in 1..Len(folds) : folds[k].startLine < folds[k].endLine

SameAsRegions(ranges, folds) ==
  /\ Len(ranges) = Len(folds)
  /\ \A k \in 1..Len(folds) :
       /\ DOMAIN ranges[k] = {"startLine", "endLine", "kind"}
       /\ ranges[k].startLine = folds[k].startLine
       /\ ranges[k].endLine = folds[k].endLine
       /\ ranges[k].kind = "region"

\* C30: for the tree of a folding-range request, every range of
\* getTreeSitterFolds has startLine <= endLine, every range pushed for a
\* section has startLine < endLine, and the ranges the request returns are
\* those ranges, as many and in the same order, each of kind Region.
C30_FoldsAreOrderedRegions ==
  reply.to = "foldingRange" /\ reply.tree # << >> =>
    /\ AllOrdered(getTreeSitterFolds(reply.tree[1]))
    /\ \A n \in NodesOf(reply.tree[1].rootNode) :
         n.type = "section" => AllStrict(FoldsAt(n))
    /\ SameAsRegions(reply.result, getTreeSitterFolds(reply.tree[1]))

\* the folds of a section of three lines that holds a block of one line
C30_Witness ==
  /\ reply.to = "foldingRange"
  /\ reply.tree =
       <<[rootNode |->
            Root(<<Section(0, 0, "h", 3, <<Leaf("block", 1, 2)>>)>>)]>>
  /\ reply.result =
       <<[startLine |-> 0, endLine |-> 2, kind |-> "region"],
         [startLine |-> 1, endLine |-> 1, kind |-> "region"]>>

====
